---- MODULE Spec2Model ----
(***************************************************************************)
(* Cold-signing coordination between a client holding the spend key and a  *)
(* hub holding a view-only wallet.                                         *)
(*                                                                         *)
(*   SpecClient : lxmfmonero.client.MoneroClient (two caller threads and   *)
(*                the inbound LXMF callback) against lxmfmonero.hub        *)
(*                .MoneroHub and an asynchronous store-and-forward network *)
(***************************************************************************)
EXTENDS Integers, Sequences, FiniteSets, TLC

\* ------------------------------------------------------------------ bounds
\* get_balance calls each caller thread makes in one behaviour (SpecCorrelator)
MaxCalls == 1
\* responses for request ids the client never issued that the network delivers
MaxStray == 1
\* requests arbitrary peers put to the hubs (SpecHubs)
MaxInject == 2
\* operations the ReticulumXMRClient caller starts (SpecChannel)
MaxRxCalls == 1
\* milliseconds time.time() advances over (SpecChannel)
MaxTime == 1
\* messages the clients of the sessions send over their links
MaxLinkMsgs == 3

\* ------------------------------------------------- program constants
\* client.py:182  for _ in range(30): one-second path-resolution polls
PathPolls == 30

\* ------------------------------------------------------------ value sets
\* caller threads of one MoneroClient (the tui starts one thread per operation,
\* tui.py:515, 534); send_transaction runs on WfThread
Threads == {"t1", "t2"}
WfThread == "t1"

\* blobs returned by the daemons; "" is the default of result.get(..., "")
Outputs == {"o1"}
Unsigned == {"u1", "u2"}
Amounts == {1}
\* amounts a caller can pass that are not a strictly positive number
InvalidAmounts == {0, -1}
Fees == {2, 3}

\* request ids: generate_request_id() (messages.py:69-71) returns a fresh uuid4,
\* modelled as the pair (issuing thread, its n-th request); UnknownId is the id
\* of a response nobody asked for (hub.py:190 "unknown")
Id(t, n) == [thread |-> t, n |-> n]
UnknownId == Id("none", 0)

\* messages.py:16-34 MessageType
BALANCE_REQUEST == "balance_request"
EXPORT_OUTPUTS == "export_outputs"
CREATE_TX == "create_tx"
SUBMIT_TX == "submit_tx"
IMPORT_KEY_IMAGES == "import_key_images"
BALANCE_RESPONSE == "balance_response"
EXPORT_OUTPUTS_RESPONSE == "export_outputs_response"
CREATE_TX_RESPONSE == "create_tx_response"
SUBMIT_TX_RESPONSE == "submit_tx_response"
IMPORT_KEY_IMAGES_RESPONSE == "import_key_images_response"
ERROR == "error"
\* content that parse_message rejects (invalid JSON or unknown type)
GARBAGE == "garbage"
\* a "type" that is no key of MESSAGE_CLASSES, in content that is valid JSON
UnknownType == "unknown_type"
\* a JSON object without the key "type"
MissingType == "missing_type"

RequestTypes == {BALANCE_REQUEST, EXPORT_OUTPUTS, CREATE_TX, SUBMIT_TX, IMPORT_KEY_IMAGES}

\* what signing and broadcasting produce from their input blob
SignedOf(u) == IF u = "u1" THEN "s1" ELSE IF u = "u2" THEN "s2" ELSE "s0"
HashOf(s) == IF s = "s1" THEN "h1" ELSE IF s = "s2" THEN "h2" ELSE "h0"

\* one wire message (BaseMessage plus the fields of its kind); a field a kind
\* does not carry holds its default
Blank(type, rid) ==
    [type |-> type, request_id |-> rid, operator_id |-> "", success |-> FALSE,
     error |-> "", blob |-> "", fee |-> 0, amount |-> 0, balance |-> 0]

\* None
NoMsg == Blank("none", UnknownId)

\* the client's operator_id
OperatorId == "alice"

Request(type, rid) == [Blank(type, rid) EXCEPT !.operator_id = OperatorId]

\* one wallet RPC as issued: method, the names of its params, and the params
\* the properties read
Rpc(method, params, do_not_relay, blob) ==
    [method |-> method, params |-> params, do_not_relay |-> do_not_relay, blob |-> blob]

\* a dict returned by a high-level operation of the client
Res(success, error) ==
    [success |-> success, step |-> "", error |-> error, blob |-> "",
     tx_hash |-> "", fee |-> 0, amount |-> 0]
NoRes == Res(FALSE, "none")

Put(f, k, v) == [x \in DOMAIN f \cup {k} |-> IF x = k THEN v ELSE f[x]]
Pop(f, k) == [x \in DOMAIN f \ {k} |-> f[x]]

\* ---- reticulumxmr: view_key_protocol.py message kinds
KindsClientToHub ==
    {"ProvisionWalletMessage", "BalanceRequestMessage", "CreateTransactionMessage",
     "SignedTransactionMessage", "TransactionHistoryMessage", "ExportOutputsRequestMessage",
     "ImportKeyImagesMessage"}
KindsHubToClient ==
    {"ProvisionAckMessage", "BalanceResponseMessage", "UnsignedTransactionMessage",
     "TransactionResultMessage", "HistoryResponseMessage", "ExportOutputsResponseMessage",
     "ImportKeyImagesResponseMessage", "ViewKeyStatusMessage"}
\* view_key_protocol.py:865-881
VIEW_KEY_MESSAGE_TYPES == KindsClientToHub \cup KindsHubToClient

\* the keys pack() writes for each kind
PackedFields(kind) ==
    CASE kind = "ProvisionWalletMessage" ->
           {"operator_id", "view_key", "wallet_address", "wallet_name", "restore_height", "ts"}
      [] kind = "ProvisionAckMessage" -> {"success", "operator_id", "status", "error", "ts"}
      [] kind = "BalanceRequestMessage" -> {"operator_id", "request_id", "ts"}
      [] kind = "BalanceResponseMessage" ->
           {"success", "request_id", "balance", "unlocked_balance", "balance_atomic",
            "block_height", "blocks_to_unlock", "error", "ts"}
      [] kind = "CreateTransactionMessage" ->
           {"operator_id", "request_id", "destination", "amount", "priority", "description",
            "ts"}
      [] kind = "UnsignedTransactionMessage" ->
           {"success", "request_id", "unsigned_tx", "tx_key", "fee", "total", "destinations",
            "change", "error", "ts"}
      [] kind = "SignedTransactionMessage" -> {"operator_id", "request_id", "signed_tx", "ts"}
      [] kind = "TransactionResultMessage" ->
           {"success", "request_id", "tx_hash", "tx_key", "fee", "status", "error", "ts"}
      [] kind = "TransactionHistoryMessage" ->
           {"operator_id", "request_id", "limit", "min_height", "ts"}
      [] kind = "HistoryResponseMessage" ->
           {"success", "request_id", "transactions", "error", "ts"}
      [] kind = "ExportOutputsRequestMessage" -> {"operator_id", "request_id", "all", "ts"}
      [] kind = "ExportOutputsResponseMessage" ->
           {"success", "request_id", "outputs", "error", "ts"}
      [] kind = "ImportKeyImagesMessage" ->
           {"operator_id", "request_id", "key_images", "offset", "ts"}
      [] kind = "ImportKeyImagesResponseMessage" ->
           {"success", "request_id", "height", "spent", "unspent", "error", "ts"}
      [] kind = "ViewKeyStatusMessage" ->
           {"operator_id", "event_type", "tx_hash", "amount", "message", "ts"}
      [] OTHER -> {}

\* the links the hub has accepted, one HubColdSigningSession each (hub.py of
\* reticulumxmr creates a session per established link); in flight a message
\* is tagged with its link
Sessions == {"s1", "s2"}
\* the link of the modelled ReticulumXMRClient
MainLink == "s1"

\* request ids of ReticulumXMRClient: f"{prefix}_{int(time.time()*1000)}"
RxId(prefix, ms) == [prefix |-> prefix, ms |-> ms]
\* None
NoId == RxId("", 0)

\* one message of the channel as packed: its kind, the keys on the wire and
\* the values the handlers read
VkMsg(kind, rid) ==
    [kind |-> kind, fields |-> PackedFields(kind), request_id |-> rid, operator_id |-> "",
     success |-> FALSE, error |-> "", blob |-> "", fee |-> 0, amount |-> 0, balance |-> 0,
     link |-> MainLink]
NoVkMsg == VkMsg("none", NoId)

Operators == {"alice", "bob"}

\* wallet names: None, "default" and f"viewonly_{operator_id}_{int(time.time())}"
NoWallet == <<>>
DefaultWallet == <<"default">>
\* a wallet the daemon was started with
PreopenedWallet == <<"preopened">>
WalletName(operator, t) == <<"viewonly", operator, t>>

RxInit == [unsigned |-> "", fee |-> 0, signed |-> ""]
RxRes(success, error) ==
    [success |-> success, error |-> error, tx_hash |-> "", fee |-> 0, balance |-> 0,
     blob |-> ""]
NoRxRes == RxRes(FALSE, "none")

\* ======================================================================
\* messages.py: the message classes, to_json and parse_message
\* ======================================================================
\* None
Null == "None"
\* the values `x or default` replaces
Falsy == {Null, ""}
\* messages.py:69-71  what generate_request_id() returns
GeneratedId == "uuid4"
\* messages.py:74-76  current_timestamp() when a message is built and when a
\* content is parsed
BuiltAt == 1
ParsedAt == 2

\* messages.py:383-395
MESSAGE_CLASSES ==
    [balance_request |-> "BalanceRequest",
     export_outputs |-> "ExportOutputsRequest",
     create_tx |-> "CreateTxRequest",
     submit_tx |-> "SubmitTxRequest",
     import_key_images |-> "ImportKeyImagesRequest",
     balance_response |-> "BalanceResponse",
     export_outputs_response |-> "ExportOutputsResponse",
     create_tx_response |-> "CreateTxResponse",
     submit_tx_response |-> "SubmitTxResponse",
     import_key_images_response |-> "ImportKeyImagesResponse",
     error |-> "ErrorResponse"]

\* a message object: its class and its dataclass fields
Object(class, fields) == [class |-> class, fields |-> fields]
NoObject == Object("none", <<>>)

\* messages.py:86-90
BalanceRequest(operator_id, request_id, now) ==
    Object("BalanceRequest",
           [type |-> BALANCE_REQUEST,
            request_id |-> IF request_id \in Falsy THEN GeneratedId ELSE request_id,
            timestamp |-> now, operator_id |-> operator_id])
\* messages.py:108-113
ExportOutputsRequest(operator_id, all_outputs, request_id, now) ==
    Object("ExportOutputsRequest",
           [type |-> EXPORT_OUTPUTS,
            request_id |-> IF request_id \in Falsy THEN GeneratedId ELSE request_id,
            timestamp |-> now, operator_id |-> operator_id, all_outputs |-> all_outputs])
\* messages.py:134-142
CreateTxRequest(operator_id, destination, amount, priority, request_id, now) ==
    Object("CreateTxRequest",
           [type |-> CREATE_TX,
            request_id |-> IF request_id \in Falsy THEN GeneratedId ELSE request_id,
            timestamp |-> now, operator_id |-> operator_id, destination |-> destination,
            amount |-> amount, priority |-> priority])
\* messages.py:163-168
SubmitTxRequest(operator_id, signed_txset, request_id, now) ==
    Object("SubmitTxRequest",
           [type |-> SUBMIT_TX,
            request_id |-> IF request_id \in Falsy THEN GeneratedId ELSE request_id,
            timestamp |-> now, operator_id |-> operator_id, signed_txset |-> signed_txset])
\* messages.py:188-195
ImportKeyImagesRequest(operator_id, signed_key_images, offset, request_id, now) ==
    Object("ImportKeyImagesRequest",
           [type |-> IMPORT_KEY_IMAGES,
            request_id |-> IF request_id \in Falsy THEN GeneratedId ELSE request_id,
            timestamp |-> now, operator_id |-> operator_id,
            signed_key_images |-> signed_key_images, offset |-> offset])
\* messages.py:220-230
BalanceResponse(request_id, success, balance, unlocked_balance, block_height, error, now) ==
    Object("BalanceResponse",
           [type |-> BALANCE_RESPONSE, request_id |-> request_id, timestamp |-> now,
            success |-> success, balance |-> balance, unlocked_balance |-> unlocked_balance,
            block_height |-> block_height, error |-> error])
\* messages.py:251-258
ExportOutputsResponse(request_id, success, outputs_data_hex, error, now) ==
    Object("ExportOutputsResponse",
           [type |-> EXPORT_OUTPUTS_RESPONSE, request_id |-> request_id, timestamp |-> now,
            success |-> success, outputs_data_hex |-> outputs_data_hex, error |-> error])
\* messages.py:279-289
CreateTxResponse(request_id, success, unsigned_txset, fee, amount, error, now) ==
    Object("CreateTxResponse",
           [type |-> CREATE_TX_RESPONSE, request_id |-> request_id, timestamp |-> now,
            success |-> success, unsigned_txset |-> unsigned_txset, fee |-> fee,
            amount |-> amount, error |-> error])
\* messages.py:310-317
SubmitTxResponse(request_id, success, tx_hash, error, now) ==
    Object("SubmitTxResponse",
           [type |-> SUBMIT_TX_RESPONSE, request_id |-> request_id, timestamp |-> now,
            success |-> success, tx_hash |-> tx_hash, error |-> error])
\* messages.py:338-349
ImportKeyImagesResponse(request_id, success, height, spent, unspent, error, now) ==
    Object("ImportKeyImagesResponse",
           [type |-> IMPORT_KEY_IMAGES_RESPONSE, request_id |-> request_id, timestamp |-> now,
            success |-> success, height |-> height, spent |-> spent, unspent |-> unspent,
            error |-> error])
\* messages.py:367-371
ErrorMessage(request_id, error, now) ==
    Object("ErrorResponse",
           [type |-> ERROR, request_id |-> request_id, timestamp |-> now, error |-> error])

\* a content: text that is no JSON, JSON that is no object, or a JSON object
\* (its keys and values)
Content(json, obj) == [json |-> json, obj |-> obj]
NoContent == Content("none", <<>>)
InvalidJson == Content("invalid", <<>>)
JsonArray == Content("array", <<>>)

\* only the fields of BaseMessage are written
to_json_BaseOnly(m) ==
    Content("object", [k \in {"type", "request_id", "timestamp"} |-> m.fields[k]])

\* messages.py:44-46  json.dumps(asdict(self)): an object with one key per
\* dataclass field
to_json(m) == Content("object", m.fields)

\* dict.get(key, default)
Get(data, key, default) == IF key \in DOMAIN data THEN data[key] ELSE default

\* messages.py  the from_dict of the class registered for msg_type
from_dict(msg_type, data, now) ==
    LET restamp(msg) ==
            [msg EXCEPT !.fields["timestamp"] = Get(data, "timestamp", now)]
    IN CASE msg_type = BALANCE_REQUEST ->
              restamp(BalanceRequest(Get(data, "operator_id", ""),
                                     Get(data, "request_id", Null), now))
         [] msg_type = EXPORT_OUTPUTS ->
              restamp(ExportOutputsRequest(Get(data, "operator_id", ""),
                                           Get(data, "all_outputs", TRUE),
                                           Get(data, "request_id", Null), now))
         [] msg_type = CREATE_TX ->
              restamp(CreateTxRequest(Get(data, "operator_id", ""),
                                      Get(data, "destination", ""),
                                      Get(data, "amount", 0), Get(data, "priority", 1),
                                      Get(data, "request_id", Null), now))
         [] msg_type = SUBMIT_TX ->
              restamp(SubmitTxRequest(Get(data, "operator_id", ""),
                                      Get(data, "signed_txset", ""),
                                      Get(data, "request_id", Null), now))
         [] msg_type = IMPORT_KEY_IMAGES ->
              restamp(ImportKeyImagesRequest(Get(data, "operator_id", ""),
                                             Get(data, "signed_key_images", <<>>),
                                             Get(data, "offset", 0),
                                             Get(data, "request_id", Null), now))
         [] msg_type = BALANCE_RESPONSE ->
              BalanceResponse(Get(data, "request_id", ""), Get(data, "success", FALSE),
                              Get(data, "balance", 0), Get(data, "unlocked_balance", 0),
                              Get(data, "block_height", 0), Get(data, "error", Null), now)
         [] msg_type = EXPORT_OUTPUTS_RESPONSE ->
              ExportOutputsResponse(Get(data, "request_id", ""), Get(data, "success", FALSE),
                                    Get(data, "outputs_data_hex", ""),
                                    Get(data, "error", Null), now)
         [] msg_type = CREATE_TX_RESPONSE ->
              CreateTxResponse(Get(data, "request_id", ""), Get(data, "success", FALSE),
                               Get(data, "unsigned_txset", ""), Get(data, "fee", 0),
                               Get(data, "amount", 0), Get(data, "error", Null), now)
         [] msg_type = SUBMIT_TX_RESPONSE ->
              SubmitTxResponse(Get(data, "request_id", ""), Get(data, "success", FALSE),
                               Get(data, "tx_hash", ""), Get(data, "error", Null), now)
         [] msg_type = IMPORT_KEY_IMAGES_RESPONSE ->
              ImportKeyImagesResponse(Get(data, "request_id", ""),
                                      Get(data, "success", FALSE), Get(data, "height", 0),
                                      Get(data, "spent", 0), Get(data, "unspent", 0),
                                      Get(data, "error", Null), now)
         [] msg_type = ERROR ->
              ErrorMessage(Get(data, "request_id", ""), Get(data, "error", "Unknown error"),
                           now)

\* what a call of parse_message gave: the exception it raised ("" if none)
\* and the message it returned
Parse(raised, msg) == [raised |-> raised, msg |-> msg]
NoParse == Parse("none", NoObject)

\* an unregistered type is parsed as an ErrorResponse
parse_message_Lenient(content, now) ==
    IF content.json # "object"
      THEN Parse("JSONDecodeError", NoObject)
      ELSE LET msg_type == Get(content.obj, "type", Null)
           IN  Parse("", from_dict(IF msg_type \in DOMAIN MESSAGE_CLASSES THEN msg_type
                                                                         ELSE ERROR,
                                   content.obj, now))

\* messages.py:412-418  the exception parse_message raises on a content, "" if
\* none: json.loads raises on text that is no JSON; .get is no attribute of a
\* parsed value that is no object; a type that is no key of MESSAGE_CLASSES,
\* None for a missing "type" included, raises ValueError
ParseError(content) ==
    IF content.json = "invalid"
      THEN "JSONDecodeError"
      ELSE IF content.json # "object"
        THEN "AttributeError"
        ELSE IF Get(content.obj, "type", Null) \notin DOMAIN MESSAGE_CLASSES
          THEN "ValueError"
          ELSE ""

\* messages.py:398-420
parse_message(content, now) ==
    IF ParseError(content) # ""
      THEN Parse(ParseError(content), NoObject)
      ELSE Parse("", from_dict(content.obj.type, content.obj, now))

\* the arguments callers pass
RequestIdArgs == {Null, "", "r1"}
ResponseIdArgs == {"", "r1"}
Texts == {"", "x"}
Numbers == {0, 1}
Errors == {Null, "e"}

\* every message the constructors build from these arguments
Messages ==
    LET now == BuiltAt
    IN  {BalanceRequest(o, r, now) : o \in Texts, r \in RequestIdArgs}
        \cup {ExportOutputsRequest(o, a, r, now) :
                o \in Texts, a \in BOOLEAN, r \in RequestIdArgs}
        \cup {CreateTxRequest(o, d, a, 1, r, now) :
                o \in Texts, d \in Texts, a \in Numbers, r \in RequestIdArgs}
        \cup {SubmitTxRequest(o, t, r, now) : o \in Texts, t \in Texts, r \in RequestIdArgs}
        \cup {ImportKeyImagesRequest(o, k, n, r, now) :
                o \in Texts, k \in {<<>>, <<"ki">>}, n \in Numbers, r \in RequestIdArgs}
        \cup {BalanceResponse(r, ok, b, b, h, e, now) :
                r \in ResponseIdArgs, ok \in BOOLEAN, b \in Numbers, h \in Numbers,
                e \in Errors}
        \cup {ExportOutputsResponse(r, ok, t, e, now) :
                r \in ResponseIdArgs, ok \in BOOLEAN, t \in Texts, e \in Errors}
        \cup {CreateTxResponse(r, ok, t, f, f, e, now) :
                r \in ResponseIdArgs, ok \in BOOLEAN, t \in Texts, f \in Numbers,
                e \in Errors}
        \cup {SubmitTxResponse(r, ok, t, e, now) :
                r \in ResponseIdArgs, ok \in BOOLEAN, t \in Texts, e \in Errors}
        \cup {ImportKeyImagesResponse(r, ok, h, n, n, e, now) :
                r \in ResponseIdArgs, ok \in BOOLEAN, h \in Numbers, n \in Numbers,
                e \in Errors}
        \cup {ErrorMessage(r, e, now) : r \in ResponseIdArgs, e \in {"e", ""}}

\* contents no message class wrote: text that is no JSON, a JSON array, and
\* objects whose "type" is missing or registered for no class
ForeignContents ==
    {InvalidJson, JsonArray,
     Content("object", [request_id |-> "r1", operator_id |-> "x"]),
     Content("object", [type |-> UnknownType, request_id |-> "r1", operator_id |-> "x"]),
     Content("object", [type |-> Null, request_id |-> "r1"])}

\* messages.py:129-142, 162-168  the fields the constructors of the request
\* classes take without a default, besides operator_id
RequiredPayload ==
    [create_tx |-> {"destination", "amount"}, submit_tx |-> {"signed_txset"}]

\* objects of a registered request type that lack a field of its payload
MalformedContents ==
    {Content("object", [type |-> CREATE_TX, request_id |-> "r1", operator_id |-> "x",
                        amount |-> 1, priority |-> 1, timestamp |-> 1]),
     Content("object", [type |-> CREATE_TX, request_id |-> "r1", operator_id |-> "x",
                        destination |-> "x", priority |-> 1, timestamp |-> 1]),
     Content("object", [type |-> SUBMIT_TX, request_id |-> "r1", operator_id |-> "x",
                        timestamp |-> 1])}

\* ---- WalletRPCClient.call (wallet_rpc.py:35-63, hub_cold_signing.py:55-74)
\* the methods the clients and the hubs call
RpcMethods ==
    {"get_version", "get_balance", "get_height", "get_address", "refresh", "export_outputs",
     "transfer", "submit_transfer", "relay_tx", "import_key_images", "import_outputs",
     "sign_transfer", "export_key_images", "open_wallet", "generate_from_keys"}

\* one HTTP exchange: the exception session.post or response.json raised
\* ("" if none) and the JSON value of the body
Exchange(raised, body) == [raised |-> raised, body |-> body]
NoExchange == Exchange("none", Content("none", <<>>))

\* requests.exceptions: ConnectTimeout derives from both ConnectionError and
\* Timeout, ReadTimeout from Timeout; JSONDecodeError is what response.json
\* raises on a body that is no JSON
Timeouts == {"Timeout", "ReadTimeout", "ConnectTimeout"}
ConnectionErrors == {"ConnectionError", "ConnectTimeout", "SSLError", "ProxyError"}
OtherExceptions == {"JSONDecodeError", "InvalidURL", "ChunkedEncodingError"}

\* the error objects a daemon reports
DaemonErrors == {[code |-> -13, message |-> "No wallet file"],
                 [code |-> -4, message |-> "not enough money"]}
DaemonResults == {[balance |-> 5], [height |-> 1]}

\* bodies: JSON objects with "error", "result", both or neither, and JSON
\* values that are no object
Bodies ==
    {Content("object", [jsonrpc |-> "2.0", id |-> "0", error |-> e]) : e \in DaemonErrors}
    \cup {Content("object", [jsonrpc |-> "2.0", id |-> "0", result |-> r]) : r \in DaemonResults}
    \cup {Content("object", [jsonrpc |-> "2.0", id |-> "0", error |-> e, result |-> r]) :
             e \in DaemonErrors, r \in DaemonResults}
    \cup {Content("object", [jsonrpc |-> "2.0", id |-> "0"]),
          Content("array", <<>>), Content("null", <<>>), Content("string", <<>>)}

Exchanges ==
    {Exchange(x, Content("none", <<>>)) : x \in Timeouts \cup ConnectionErrors \cup OtherExceptions}
    \cup {Exchange("", b) : b \in Bodies}

\* what a call gives its caller: the exception it let through ("" if it
\* returned) and the dict it returned
Returned_(raised, dict) == [raised |-> raised, dict |-> dict]
NoReturn == Returned_("none", <<>>)
RpcFailure(code, message) == Returned_("", [error |-> [code |-> code, message |-> message]])

\* only the two transport exceptions are caught
WalletRPCClient_call_TransportOnly(method, x) ==
    IF x.raised \in Timeouts THEN RpcFailure(-1, "RPC timeout")
    ELSE IF x.raised \in ConnectionErrors THEN RpcFailure(-2, "Connection error")
    ELSE IF x.raised # "" THEN Returned_(x.raised, <<>>)
    ELSE IF x.body.json # "object" THEN Returned_("AttributeError", <<>>)
    ELSE IF "error" \in DOMAIN x.body.obj THEN Returned_("", [error |-> x.body.obj.error])
    ELSE Returned_("", [result |-> Get(x.body.obj, "result", <<>>)])

\* wallet_rpc.py:35-63, hub_cold_signing.py:55-74  the except clauses are
\* tried in order; a body that is no object makes '"error" in result' or
\* result.get raise inside the try block
WalletRPCClient_call(method, x) ==
    IF x.raised \in Timeouts THEN RpcFailure(-1, "RPC timeout")
    ELSE IF x.raised \in ConnectionErrors THEN RpcFailure(-2, "Connection error")
    ELSE IF x.raised # "" THEN RpcFailure(-3, x.raised)
    ELSE IF x.body.json = "null" THEN RpcFailure(-3, "TypeError")
    ELSE IF x.body.json # "object" THEN RpcFailure(-3, "AttributeError")
    ELSE IF "error" \in DOMAIN x.body.obj THEN Returned_("", [error |-> x.body.obj.error])
    ELSE Returned_("", [result |-> Get(x.body.obj, "result", <<>>)])

\* ---- Python ints and floats (IEEE 754 binary64) as far as hub.py uses them
\* a natural number of any size: its digits in base 4096, least significant
\* first, no leading zero digit
LimbBits == 12
LimbBase == 2 ^ LimbBits
RECURSIVE Strip(_)
Strip(a) == IF a # <<>> /\ a[Len(a)] = 0 THEN Strip(SubSeq(a, 1, Len(a) - 1)) ELSE a
Rest(a) == IF a = <<>> THEN <<>> ELSE Tail(a)
Low(a) == IF a = <<>> THEN 0 ELSE Head(a)
RECURSIVE AddCarry(_, _, _)
AddCarry(a, b, c) ==
    IF a = <<>> /\ b = <<>> /\ c = 0 THEN <<>>
    ELSE <<(Low(a) + Low(b) + c) % LimbBase>>
         \o AddCarry(Rest(a), Rest(b), (Low(a) + Low(b) + c) \div LimbBase)
Add(a, b) == AddCarry(a, b, 0)
\* a - b for a >= b
RECURSIVE SubBorrow(_, _, _)
SubBorrow(a, b, c) ==
    IF a = <<>> THEN <<>>
    ELSE <<(Low(a) - Low(b) - c + LimbBase) % LimbBase>>
         \o SubBorrow(Rest(a), Rest(b), IF Low(a) - Low(b) - c < 0 THEN 1 ELSE 0)
Sub(a, b) == Strip(SubBorrow(a, b, 0))
\* -1, 0 or 1 as a is less than, equal to or greater than b
RECURSIVE Cmp(_, _)
Cmp(a, b) ==
    IF Len(a) # Len(b) THEN (IF Len(a) < Len(b) THEN -1 ELSE 1)
    ELSE IF a = <<>> THEN 0
    ELSE IF a[Len(a)] # b[Len(b)] THEN (IF a[Len(a)] < b[Len(b)] THEN -1 ELSE 1)
    ELSE Cmp(SubSeq(a, 1, Len(a) - 1), SubSeq(b, 1, Len(b) - 1))
\* a * k + c for a small k
RECURSIVE MulDigit(_, _, _)
MulDigit(a, k, c) ==
    IF a = <<>> /\ c = 0 THEN <<>>
    ELSE <<(Low(a) * k + c) % LimbBase>> \o MulDigit(Rest(a), k, (Low(a) * k + c) \div LimbBase)
RECURSIVE Mul(_, _)
Mul(a, b) ==
    IF a = <<>> \/ b = <<>> THEN <<>>
    ELSE Add(MulDigit(a, Head(b), 0), Strip(<<0>> \o Mul(a, Tail(b))))
Dbl(a) == MulDigit(a, 2, 0)
\* a * 2^k
Shl(a, k) ==
    IF a = <<>> THEN <<>>
    ELSE [i \in 1..(k \div LimbBits) |-> 0] \o MulDigit(a, 2 ^ (k % LimbBits), 0)
\* the number of binary digits of a
BitLen(a) ==
    IF a = <<>> THEN 0
    ELSE LimbBits * (Len(a) - 1)
         + CHOOSE b \in 1..LimbBits : 2 ^ (b - 1) <= a[Len(a)] /\ a[Len(a)] < 2 ^ b
\* the number written in decimal, four digits a group, most significant first
RECURSIVE Int_(_)
Int_(groups) ==
    IF groups = <<>> THEN <<>>
    ELSE MulDigit(Int_(SubSeq(groups, 1, Len(groups) - 1)), 10000, groups[Len(groups)])
RECURSIVE Pow10(_)
Pow10(k) == IF k = 0 THEN <<1>> ELSE MulDigit(Pow10(k - 1), 10, 0)

\* long division, one quotient bit per step: r < 2d is what is left, q the
\* bits found, last what was left before the doubling
DivStep(s, d) ==
    LET bit == IF Cmp(s.r, d) >= 0 THEN 1 ELSE 0
        r1 == IF bit = 1 THEN Sub(s.r, d) ELSE s.r
    IN  [r |-> Dbl(r1), q |-> MulDigit(s.q, 2, bit), last |-> r1]
RECURSIVE DivSteps(_, _, _)
DivSteps(s, d, n) ==
    IF n = 1 THEN DivStep(s, d)
    ELSE LET half == DivSteps(s, d, n \div 2)
         IN  IF half.r = <<>>
               THEN [r |-> <<>>, q |-> Shl(half.q, n - n \div 2), last |-> <<>>]
               ELSE DivSteps(half, d, n - n \div 2)
\* for p < q * 2^53: q is floor(p / q), last is 2^52 times the remainder
DivMod(p, q) == DivSteps([r |-> p, q |-> <<>>, last |-> p], Shl(q, 52), 53)

\* a float: m * 2^e with 2^52 <= m < 2^53, or zero
Float(m, e) == [m |-> m, e |-> e]
Zero == Float(<<>>, 0)
Pow2(k) == Shl(<<1>>, k)
Pos(k) == IF k > 0 THEN k ELSE 0
\* the float nearest to p / q, ties to the even mantissa
Nearest(p, q) ==
    IF p = <<>> THEN Zero
    ELSE LET e0 == BitLen(p) - BitLen(q) - 53
             p1 == Shl(p, Pos(0 - e0))
             q1 == Shl(q, Pos(e0))
             over == Cmp(p1, Shl(q1, 53)) >= 0
             q2 == IF over THEN Dbl(q1) ELSE q1
             e == IF over THEN e0 + 1 ELSE e0
             d == DivMod(p1, q2)
             half == Cmp(Dbl(d.last), Shl(q2, 52))
             up == half > 0 \/ (half = 0 /\ Low(d.q) % 2 = 1)
             m == IF up THEN AddCarry(d.q, <<>>, 1) ELSE d.q
         IN  IF m = Pow2(53) THEN Float(Pow2(52), e + 1) ELSE Float(m, e)
\* float(n) of an int, x * y, x / y, and int(x) of a float x >= 0
FromInt(n) == Nearest(n, <<1>>)
FMul(x, y) == Nearest(Shl(Mul(x.m, y.m), Pos(x.e + y.e)), Pow2(Pos(0 - (x.e + y.e))))
FDiv(x, y) == Nearest(Shl(x.m, Pos(x.e - y.e)), Shl(y.m, Pos(y.e - x.e)))
Trunc(x) == IF x.e >= 0 THEN Shl(x.m, x.e)
            ELSE IF 0 - x.e > 53 THEN <<>> ELSE DivMod(x.m, Pow2(0 - x.e)).q
\* the float a decimal literal n / 10^k denotes
Literal(n, k) == Nearest(n, Pow10(k))
E12 == FromInt(Pow10(12))

\* hub.py:360-361  amount_atomic = int(request.amount * 1e12)
AmountAtomic(amount) == Trunc(FMul(amount, E12))
\* hub.py:326-327, 397  atomic / 1e12
Xmr(atomic) == FDiv(FromInt(atomic), E12)
\* what a reader of a response computes: value * 1e12
BackToAtomic(xmr) == FMul(xmr, E12)

\* amounts in XMR as a request carries them: the decimal literal n / 10^k
XmrAmounts ==
    {[n |-> Int_(<<1>>), k |-> 3], [n |-> Int_(<<1005>>), k |-> 3], [n |-> Int_(<<435>>), k |-> 2],
     [n |-> Int_(<<82>>), k |-> 1], [n |-> Int_(<<995>>), k |-> 2], [n |-> Int_(<<1>>), k |-> 1],
     [n |-> Int_(<<29>>), k |-> 2], [n |-> Int_(<<11>>), k |-> 1], [n |-> Int_(<<23>>), k |-> 1],
     [n |-> Int_(<<7>>), k |-> 1]}
\* fees and balances in atomic units as the daemon reports them
FeeAtomics ==
    {Int_(<<2000, 0>>), Int_(<<3000, 0>>), Int_(<<3054, 0>>), Int_(<<3072, 0>>),
     Int_(<<1, 2345, 0>>), Int_(<<31>>), Int_(<<61>>), Int_(<<122>>), Int_(<<1>>), <<>>}
BalanceAtomics ==
    {Int_(<<5, 0, 0, 0>>), Int_(<<4, 3500, 0, 0>>), Int_(<<2, 5000, 0, 0>>),
     Int_(<<7, 3000, 0, 0>>), Int_(<<1, 2345, 6789, 123>>), Int_(<<9999, 9999, 9999>>),
     Int_(<<18, 4467, 4407, 3709>>), Int_(<<61>>), Int_(<<1>>), <<>>}
NoAmounts == [amount |-> Zero, fee_atomic |-> <<>>, balance_atomic |-> <<>>]
NoConverted == [amount_atomic |-> <<>>, fee |-> Zero, amount |-> Zero, balance |-> Zero]

VARIABLES
    \* ---- MoneroClient
    pending,            \* self.pending: request_id -> [event, response]
    pending_lock,       \* "free" or who holds self.pending_lock
    messages_sent,      \* self.messages_sent
    messages_received,  \* self.messages_received
    hubKnown,           \* RNS.Identity.recall(self.hub_hash) is not None
    nextId,             \* thread -> number of its next request
    \* ---- caller threads
    op,                 \* thread -> operation it is in
    sr,                 \* thread -> position inside _send_request
    req,                \* thread -> request of the running _send_request (None outside)
    ret,                \* thread -> value _send_request is about to return
    raising,            \* thread -> an exception is propagating
    polls,              \* thread -> path-resolution polls done
    wf,                 \* send_transaction locals
    result,             \* thread -> dict returned by its last operation
    calls,              \* thread -> get_balance calls started
    steps,              \* steps send_transaction started, in order
    outcomes,           \* success of the steps that returned, in order
    handed,             \* request kind -> times send_transaction handed it to the transport
    signCalls,          \* sign_transfer calls made by send_transaction
    \* ---- network
    toHub,              \* requests in flight
    toClient,           \* responses in flight
    strays,             \* stray responses injected so far
    \* ---- MoneroHub
    hubHandling,        \* type of the request handled last
    hubRpcs,            \* wallet RPCs issued while handling it
    hubFailed,          \* the methods of these RPCs that returned an error, in call order
    broadcast,          \* signed blobs the hub's daemon relayed
    hubSent,            \* responses the hub handed to its router so far
    hub_messages_received,
    hub_messages_sent,
    hubWallet,          \* the wallet open in the wallet daemon of MoneroHub
    hubServed,          \* (operator_id, wallet) of the requests served with wallet RPCs
    \* ---- HubColdSigningSession (one per link)
    current_operator_id,   \* session -> its operator ("" is None)
    current_wallet_name,   \* session -> its wallet name
    message_count,         \* session -> messages handled
    walletOpen,         \* the wallet open in the wallet daemon the sessions share
    sessOperator,       \* operator_id of the message handled last
    sessWallet,         \* wallet open in the daemon when its RPCs were served
    mappings,           \* operator_wallets.json: operator_id -> wallet_name
    provisions,         \* int(time.time()) as far as wallet names see it
    sessHandling,       \* kind of the message handled last
    sessRpcs,           \* wallet RPCs issued while handling it
    sessFailed,         \* the methods of these RPCs that returned an error, in call order
    sessResponse,       \* the response its handler sent, NoVkMsg if none
    sessSent,           \* messages the session handed to its channel so far
    sessBroadcast,      \* signed blobs the session's daemon relayed
    injected,           \* requests put to the hubs by arbitrary peers so far
    \* ---- ReticulumXMRClient
    connected,
    _pending_requests,  \* request_id -> message (None until the response)
    _response_events,   \* request_id -> event is set
    rxOp,               \* operation the caller is in
    rxPc,               \* its position
    rxId,               \* its request_id
    rxLocal,            \* locals of create_and_sign_transaction
    rxResult,           \* dict returned by the last operation
    rxCalls,            \* operations started
    rxDropped,          \* messages for which _handle_message returned False
    now,                \* int(time.time()*1000)
    \* ---- the link's channel
    rxToHub,
    rxToClient,
    \* ---- ReticulumXMRHub (one entry per link)
    linkStatus,         \* link -> "none", "active" (callbacks set), "unserved" or "closed"
    initialHandler,     \* link -> initial_message_handler is a handler of its channel
    pendingSession,     \* link -> pending['session']
    hub_sessions,       \* self.sessions
    sessionsCreated,    \* link -> HubColdSigningSession objects constructed for it
    linkReceived,       \* link -> messages its handlers were called with
    \* ---- messages.py: one message on its way through to_json and parse_message
    codecPc,            \* "none", "built", "encoded" or "parsed"
    codecMsg,           \* the message object built
    codecWire,          \* the content on the wire
    codecOut,           \* what parse_message returned or raised
    \* ---- WalletRPCClient: one call
    rpcPc,              \* "none" or "returned"
    rpcMethod,          \* the method called
    rpcExchange,        \* what session.post and response.json did
    rpcReturn,          \* what call returned or raised
    \* ---- MoneroHub: the amounts of one request
    convPc,             \* "none", "create_tx" or "balance"
    convIn,             \* the request's amount and the daemon's fee and balance
    convOut,            \* the amount passed to transfer and the response's amounts
    \* ---- HubColdSigningSession._save_operator_mapping (one call per session)
    savePc,             \* session -> "none", "load" or "dump"
    saveArg,            \* session -> the operator_id and wallet_name of the call
    saveLoaded,         \* session -> the mappings the call read from the file
    \* ---- ReticulumXMRClient called from several threads
    rxcPc,              \* thread -> "none", "sent", "wait", "sign", "sent2", "wait2",
                        \*   "done1" (returned after the first wait), "signfail" or
                        \*   "done2" (returned after the submit wait)
    rxcReq,             \* thread -> the request its call sent
    rxcEvent,           \* thread -> the flag of the Event its _wait_for_response made
    rxcEvents,          \* request_id -> the thread whose Event is in _response_events
    rxcGot              \* thread -> what its _wait_for_response returned

clientVars == <<pending, pending_lock, messages_sent, messages_received, hubKnown, nextId>>
threadVars == <<op, sr, req, ret, raising, polls, wf, result, calls, steps, outcomes, handed,
                signCalls>>
netVars == <<toHub, toClient, strays>>
hubVars == <<hubHandling, hubRpcs, hubFailed, broadcast, hubSent, hub_messages_received, hub_messages_sent,
             hubWallet, hubServed>>
sessVars == <<current_operator_id, current_wallet_name, message_count, walletOpen,
              sessOperator, sessWallet, mappings, provisions,
              sessHandling, sessRpcs, sessFailed, sessResponse, sessSent, sessBroadcast>>
rxVars == <<connected, _pending_requests, _response_events, rxOp, rxPc, rxId, rxLocal, rxResult,
            rxCalls, rxDropped, now>>
chanVars == <<rxToHub, rxToClient>>
lxmfVars == <<clientVars, threadVars, netVars, hubVars>>
linkVars == <<linkStatus, initialHandler, pendingSession, hub_sessions, sessionsCreated,
              linkReceived>>
reticulumxmrVars == <<sessVars, rxVars, chanVars, linkVars>>
codecVars == <<codecPc, codecMsg, codecWire, codecOut>>
rpcVars == <<rpcPc, rpcMethod, rpcExchange, rpcReturn>>
convVars == <<convPc, convIn, convOut>>
saveVars == <<savePc, saveArg, saveLoaded>>
rxcVars == <<rxcPc, rxcReq, rxcEvent, rxcEvents, rxcGot>>
vars == <<lxmfVars, reticulumxmrVars, injected, codecVars, rpcVars, convVars, saveVars, rxcVars>>

NoSave == [operator_id |-> "", wallet_name |-> NoWallet]

WfInit == [outputs |-> "", unsigned |-> "", fee |-> 0, signed |-> "", tx_hash |-> "",
           amount |-> 0]

\* hub.py:80-170  the session of a link, and no session
SessionOf(link) == [link |-> link, n |-> 1]
NoSession == [link |-> "none", n |-> 0]

\* every object but the links of ReticulumXMRHub, as constructed
InitObjects ==
    /\ pending = <<>>
    /\ pending_lock = "free"
    /\ messages_sent = 0
    /\ messages_received = 0
    /\ hubKnown = FALSE
    /\ nextId = [t \in Threads |-> 1]
    /\ op = [t \in Threads |-> "idle"]
    /\ sr = [t \in Threads |-> "none"]
    /\ req = [t \in Threads |-> NoMsg]
    /\ ret = [t \in Threads |-> NoMsg]
    /\ raising = [t \in Threads |-> FALSE]
    /\ polls = [t \in Threads |-> 0]
    /\ wf = WfInit
    /\ result = [t \in Threads |-> NoRes]
    /\ calls = [t \in Threads |-> 0]
    /\ steps = <<>>
    /\ outcomes = <<>>
    /\ handed = [k \in RequestTypes |-> 0]
    /\ signCalls = 0
    /\ toHub = {}
    /\ toClient = {}
    /\ strays = 0
    /\ hubHandling = "none"
    /\ hubRpcs = <<>>
    /\ hubFailed = <<>>
    /\ broadcast = {}
    /\ hubSent = {}
    /\ hub_messages_received = 0
    /\ hub_messages_sent = 0
    /\ hubWallet = PreopenedWallet
    /\ hubServed = {}
    /\ current_operator_id = [s \in Sessions |-> ""]
    /\ current_wallet_name = [s \in Sessions |-> NoWallet]
    /\ message_count = [s \in Sessions |-> 0]
    /\ walletOpen = NoWallet
    /\ sessOperator = ""
    /\ sessWallet = NoWallet
    /\ mappings = <<>>
    /\ provisions = 0
    /\ sessHandling = "none"
    /\ sessRpcs = <<>>
    /\ sessFailed = <<>>
    /\ sessResponse = NoVkMsg
    /\ sessSent = {}
    /\ sessBroadcast = {}
    /\ injected = 0
    /\ codecPc = "none"
    /\ codecMsg = NoObject
    /\ codecWire = NoContent
    /\ codecOut = NoParse
    /\ rpcPc = "none"
    /\ rpcMethod = ""
    /\ rpcExchange = NoExchange
    /\ rpcReturn = NoReturn
    /\ convPc = "none"
    /\ convIn = NoAmounts
    /\ convOut = NoConverted
    /\ savePc = [s \in Sessions |-> "none"]
    /\ saveArg = [s \in Sessions |-> NoSave]
    /\ saveLoaded = [s \in Sessions |-> <<>>]
    /\ rxcPc = [t \in Threads |-> "none"]
    /\ rxcReq = [t \in Threads |-> NoVkMsg]
    /\ rxcEvent = [t \in Threads |-> FALSE]
    /\ rxcEvents = <<>>
    /\ rxcGot = [t \in Threads |-> NoVkMsg]
    /\ connected = FALSE
    /\ _pending_requests = <<>>
    /\ _response_events = <<>>
    /\ rxOp = "idle"
    /\ rxPc = "none"
    /\ rxId = NoId
    /\ rxLocal = RxInit
    /\ rxResult = NoRxRes
    /\ rxCalls = 0
    /\ rxDropped = {}
    /\ now = 0
    /\ rxToHub = {}
    /\ rxToClient = {}

\* every link is established and its ModeSelectionMessage has been received:
\* each has its session
Init ==
    /\ InitObjects
    /\ linkStatus = [l \in Sessions |-> "active"]
    /\ initialHandler = [l \in Sessions |-> FALSE]
    /\ pendingSession = [l \in Sessions |-> SessionOf(l)]
    /\ hub_sessions \in {<<SessionOf("s1"), SessionOf("s2")>>}
    /\ sessionsCreated = [l \in Sessions |-> 1]
    /\ linkReceived = [l \in Sessions |-> 1]

\* hub.py:42-78  ReticulumXMRHub as constructed: no link yet
InitLinks ==
    /\ InitObjects
    /\ linkStatus = [l \in Sessions |-> "none"]
    /\ initialHandler = [l \in Sessions |-> FALSE]
    /\ pendingSession = [l \in Sessions |-> NoSession]
    /\ hub_sessions = <<>>
    /\ sessionsCreated = [l \in Sessions |-> 0]
    /\ linkReceived = [l \in Sessions |-> 0]


\* ======================================================================
\* MoneroClient._send_request (client.py:154-228), one action per step at
\* which another thread can observe or change the pending table
\* ======================================================================

RequestId(t) == req[t].request_id

\* the router's delivery thread, as a holder of pending_lock
Handler == "handler"
\* the with-blocks of client.py and what a thread is at when it enters one
LockedAt == {"register", "read", "finally"}

\* the lock is taken and never released
WithLock_NoRelease(who) ==
    /\ pending_lock \in {"free", who}
    /\ pending_lock' = who

\* client.py:150, 170, 218, 227  with self.pending_lock: the block runs with
\* the lock held by who and releases it; the acquisition is part of the step
\* unless acquire took it before
WithLock(who) ==
    /\ pending_lock \in {"free", who}
    /\ pending_lock' = "free"

\* threading.Lock.acquire on entering a with-block, as a step of its own
acquire(who) ==
    /\ pending_lock = "free"
    /\ IF who = Handler
         THEN \E m \in toClient : m.type # GARBAGE
         ELSE sr[who] \in LockedAt
    /\ pending_lock' = who
    /\ UNCHANGED <<pending, messages_sent, messages_received, hubKnown, nextId>>
    /\ UNCHANGED <<threadVars, netVars, hubVars>>
    /\ UNCHANGED <<reticulumxmrVars, injected, codecVars, rpcVars, convVars, saveVars, rxcVars>>

\* a high-level operation builds its request and enters _send_request
BeginRequest(t, type, blob, amount) ==
    /\ req' = [req EXCEPT ![t] = [Request(type, Id(t, nextId[t]))
                                     EXCEPT !.blob = blob, !.amount = amount]]
    /\ nextId' = [nextId EXCEPT ![t] = @ + 1]
    /\ sr' = [sr EXCEPT ![t] = "register"]
    /\ ret' = [ret EXCEPT ![t] = NoMsg]
    /\ polls' = [polls EXCEPT ![t] = 0]

\* client.py:169-171  with pending_lock: pending[request_id] = {event, None}
RegisterSlot(t) == Put(pending, RequestId(t), [event |-> FALSE, response |-> NoMsg])

SR_Register(t) ==
    /\ sr[t] = "register"
    /\ WithLock(t)
    /\ pending' = RegisterSlot(t)
    /\ sr' = [sr EXCEPT ![t] = "recall"]
    /\ UNCHANGED <<messages_sent, messages_received, hubKnown, nextId>>
    /\ UNCHANGED <<op, req, ret, raising, polls, wf, result, calls, steps, outcomes, handed, signCalls>>
    /\ UNCHANGED <<netVars, hubVars>>
    /\ UNCHANGED <<reticulumxmrVars, injected, codecVars, rpcVars, convVars, saveVars, rxcVars>>

\* client.py:175-179  hub_identity = RNS.Identity.recall(...); request_path
SR_Recall(t) ==
    /\ sr[t] = "recall"
    /\ sr' = [sr EXCEPT ![t] = IF hubKnown THEN "send" ELSE "poll"]
    /\ UNCHANGED clientVars
    /\ UNCHANGED <<op, req, ret, raising, polls, wf, result, calls, steps, outcomes, handed, signCalls>>
    /\ UNCHANGED <<netVars, hubVars>>
    /\ UNCHANGED <<reticulumxmrVars, injected, codecVars, rpcVars, convVars, saveVars, rxcVars>>

\* client.py:182-190  one sleep(1) + recall of the 30-poll loop; polls[t] counts
\* the polls done while the loop runs and is 0 outside it
SR_Poll(t) ==
    /\ sr[t] = "poll"
    /\ polls[t] < PathPolls
    /\ IF hubKnown
         THEN /\ sr' = [sr EXCEPT ![t] = "send"]
              /\ polls' = [polls EXCEPT ![t] = 0]
              /\ ret' = ret
         ELSE IF polls[t] + 1 = PathPolls
                THEN /\ sr' = [sr EXCEPT ![t] = "finally"]
                     /\ polls' = [polls EXCEPT ![t] = 0]
                     /\ ret' = [ret EXCEPT ![t] = NoMsg]
                ELSE /\ sr' = sr
                     /\ polls' = [polls EXCEPT ![t] = @ + 1]
                     /\ ret' = ret
    /\ UNCHANGED clientVars
    /\ UNCHANGED <<op, req, raising, wf, result, calls, steps, outcomes, handed, signCalls>>
    /\ UNCHANGED <<netVars, hubVars>>
    /\ UNCHANGED <<reticulumxmrVars, injected, codecVars, rpcVars, convVars, saveVars, rxcVars>>

\* the hub's announce reaches the client: recall succeeds from now on
Announce ==
    /\ ~hubKnown
    /\ hubKnown' = TRUE
    /\ UNCHANGED <<pending, pending_lock, messages_sent, messages_received, nextId>>
    /\ UNCHANGED <<threadVars, netVars, hubVars>>
    /\ UNCHANGED <<reticulumxmrVars, injected, codecVars, rpcVars, convVars, saveVars, rxcVars>>

\* client.py:193-214  build the LXMessage and hand it to the router; building
\* or sending may raise, which leaves through the finally block
SR_Send(t) ==
    /\ sr[t] = "send"
    /\ \E raised \in BOOLEAN :
         IF raised
           THEN /\ raising' = [raising EXCEPT ![t] = TRUE]
                /\ sr' = [sr EXCEPT ![t] = "finally"]
                /\ UNCHANGED <<toHub, messages_sent, handed>>
           ELSE /\ toHub' = toHub \cup {req[t]}
                /\ messages_sent' = messages_sent + 1
                /\ handed' = IF op[t] = BALANCE_REQUEST THEN handed
                                                         ELSE [handed EXCEPT ![req[t].type] = @ + 1]
                /\ sr' = [sr EXCEPT ![t] = "wait"]
                /\ UNCHANGED raising
    /\ UNCHANGED <<pending, pending_lock, messages_received, hubKnown, nextId>>
    /\ UNCHANGED <<op, req, ret, polls, wf, result, calls, steps, outcomes, signCalls>>
    /\ UNCHANGED <<toClient, strays, hubVars>>
    /\ UNCHANGED <<reticulumxmrVars, injected, codecVars, rpcVars, convVars, saveVars, rxcVars>>

\* client.py:217  event.wait(timeout) returns True: the event was set
SR_WaitSet(t) ==
    /\ sr[t] = "wait"
    /\ pending[RequestId(t)].event
    /\ sr' = [sr EXCEPT ![t] = "read"]
    /\ UNCHANGED clientVars
    /\ UNCHANGED <<op, req, ret, raising, polls, wf, result, calls, steps, outcomes, handed, signCalls>>
    /\ UNCHANGED <<netVars, hubVars>>
    /\ UNCHANGED <<reticulumxmrVars, injected, codecVars, rpcVars, convVars, saveVars, rxcVars>>

\* a retry on timeout: the request is handed to the transport again and the
\* caller keeps waiting
WaitTimeout_Resend(t) ==
    /\ toHub' = toHub \cup {req[t]}
    /\ messages_sent' = messages_sent + 1
    /\ handed' = [handed EXCEPT ![req[t].type] = @ + 1]
    /\ UNCHANGED <<sr, ret>>

\* the wait has no timeout: the caller stays blocked
WaitTimeout_Forever(t) == UNCHANGED <<sr, ret, toHub, messages_sent, handed>>

\* client.py:221-223  event.wait(timeout) returns False: return None
WaitTimeout(t) ==
    /\ sr' = [sr EXCEPT ![t] = "finally"]
    /\ ret' = [ret EXCEPT ![t] = NoMsg]
    /\ UNCHANGED <<toHub, messages_sent, handed>>

SR_WaitTimeout(t) ==
    /\ sr[t] = "wait"
    /\ ~pending[RequestId(t)].event
    /\ WaitTimeout(t)
    /\ UNCHANGED <<pending, pending_lock, messages_received, hubKnown, nextId>>
    /\ UNCHANGED <<op, req, raising, polls, wf, result, calls, steps, outcomes, signCalls>>
    /\ UNCHANGED <<toClient, strays, hubVars>>
    /\ UNCHANGED <<reticulumxmrVars, injected, codecVars, rpcVars, convVars, saveVars, rxcVars>>

\* client.py:218-220  with pending_lock: response = pending[request_id]["response"]
SR_Read(t) ==
    /\ sr[t] = "read"
    /\ WithLock(t)
    /\ ret' = [ret EXCEPT ![t] = pending[RequestId(t)].response]
    /\ sr' = [sr EXCEPT ![t] = "finally"]
    /\ UNCHANGED <<pending, messages_sent, messages_received, hubKnown, nextId>>
    /\ UNCHANGED <<op, req, raising, polls, wf, result, calls, steps, outcomes, handed, signCalls>>
    /\ UNCHANGED <<netVars, hubVars>>
    /\ UNCHANGED <<reticulumxmrVars, injected, codecVars, rpcVars, convVars, saveVars, rxcVars>>

\* the slot is popped only on the path that read a response
Cleanup_OnlyOnResponse(t) == IF ret[t] = NoMsg THEN pending ELSE Pop(pending, RequestId(t))
\* the whole table is cleared
Cleanup_ClearAll(t) == <<>>

\* client.py:225-228  finally: with pending_lock: pending.pop(request_id, None)
Cleanup(t) == Pop(pending, RequestId(t))


\* ======================================================================
\* High-level operations (client.py:232-447): the dict made of the value
\* _send_request returned
\* ======================================================================
\* a missing response is reported as a response of an unexpected type
OpResult_NoneUnexpected(expected, r) ==
    IF r = NoMsg \/ r.type # expected THEN Res(FALSE, "Unexpected response")
    ELSE IF r.success THEN Res(TRUE, "") ELSE Res(FALSE, r.error)

OpResult(expected, r) ==
    IF r = NoMsg THEN Res(FALSE, "Request timed out")
    ELSE IF r.type = expected
           THEN IF r.success
                  THEN [Res(TRUE, "") EXCEPT !.blob = r.blob, !.tx_hash = r.blob,
                                              !.fee = r.fee, !.amount = r.amount]
                  ELSE Res(FALSE, r.error)
           ELSE Res(FALSE, "Unexpected response")

ResponseTypeOf(type) ==
    CASE type = BALANCE_REQUEST -> BALANCE_RESPONSE
      [] type = EXPORT_OUTPUTS -> EXPORT_OUTPUTS_RESPONSE
      [] type = CREATE_TX -> CREATE_TX_RESPONSE
      [] type = SUBMIT_TX -> SUBMIT_TX_RESPONSE
      [] type = IMPORT_KEY_IMAGES -> IMPORT_KEY_IMAGES_RESPONSE

\* ======================================================================
\* MoneroClient.send_transaction (client.py:451-527)
\* ======================================================================
\* steps answered by the hub / by the local cold wallet
HubSteps == {EXPORT_OUTPUTS, CREATE_TX, SUBMIT_TX, IMPORT_KEY_IMAGES}
LocalSteps == {"import_outputs", "sign", "export_key_images"}
FatalSteps == {EXPORT_OUTPUTS, "import_outputs", CREATE_TX, "sign", SUBMIT_TX}

\* the error prefix of a failed step (client.py:479,485,491,500,506)
StepError(step) ==
    CASE step = EXPORT_OUTPUTS -> "Export outputs failed"
      [] step = "import_outputs" -> "Import outputs failed"
      [] step = CREATE_TX -> "Create tx failed"
      [] step = "sign" -> "Sign tx failed"
      [] step = SUBMIT_TX -> "Submit tx failed"
      [] OTHER -> ""

\* a failed sign_transfer is not checked: the workflow goes on to submit
AfterStep_IgnoreSignFailure(step, ok) ==
    CASE step = EXPORT_OUTPUTS -> IF ok THEN "import_outputs" ELSE "done"
      [] step = "import_outputs" -> IF ok THEN CREATE_TX ELSE "done"
      [] step = CREATE_TX -> IF ok THEN "sign" ELSE "done"
      [] step = "sign" -> SUBMIT_TX
      [] step = SUBMIT_TX -> IF ok THEN "export_key_images" ELSE "done"
      [] step = "export_key_images" -> IF ok THEN IMPORT_KEY_IMAGES ELSE "done"
      [] step = IMPORT_KEY_IMAGES -> "done"

\* where send_transaction goes after a step returned its dict
AfterStep(step, ok) ==
    CASE step = EXPORT_OUTPUTS -> IF ok THEN "import_outputs" ELSE "done"
      [] step = "import_outputs" -> IF ok THEN CREATE_TX ELSE "done"
      [] step = CREATE_TX -> IF ok THEN "sign" ELSE "done"
      [] step = "sign" -> IF ok THEN SUBMIT_TX ELSE "done"
      [] step = SUBMIT_TX -> IF ok THEN "export_key_images" ELSE "done"
      [] step = "export_key_images" -> IF ok THEN IMPORT_KEY_IMAGES ELSE "done"
      [] step = IMPORT_KEY_IMAGES -> "done"

\* a failed key-image step is reported like a failed step 1-5
Returned_KeyImagesFatal(step, r, w) ==
    IF step \in FatalSteps \/ ~r.success
      THEN [Res(FALSE, r.error) EXCEPT !.step = IF step \in FatalSteps THEN StepError(step)
                                                                      ELSE "Key images failed"]
      ELSE [Res(TRUE, "") EXCEPT !.tx_hash = w.tx_hash, !.fee = w.fee, !.amount = w.amount]

\* the dict send_transaction returns when it leaves after `step`
Returned(step, r, w) ==
    IF step \in FatalSteps
      THEN [Res(FALSE, r.error) EXCEPT !.step = StepError(step)]
      ELSE [Res(TRUE, "") EXCEPT !.tx_hash = w.tx_hash, !.fee = w.fee, !.amount = w.amount]

\* the locals a successful step leaves behind
Keep(step, r) ==
    CASE step = EXPORT_OUTPUTS /\ r.success -> [wf EXCEPT !.outputs = r.blob]
      [] step = CREATE_TX /\ r.success -> [wf EXCEPT !.unsigned = r.blob, !.fee = r.fee]
      [] step = "sign" /\ r.success -> [wf EXCEPT !.signed = r.blob]
      [] step = SUBMIT_TX /\ r.success -> [wf EXCEPT !.tx_hash = r.tx_hash]
      [] OTHER -> wf

\* the blob the request of a hub step carries
Carried(step, w) ==
    CASE step = SUBMIT_TX -> w.signed
      [] step = IMPORT_KEY_IMAGES -> "ki"
      [] OTHER -> ""

\* send_transaction continues after `step` returned dict r; `log` is the step
\* log so far
Advance(step, r, log) ==
    LET nxt == AfterStep(step, r.success)
        w == Keep(step, r)
    IN /\ wf' = w
       /\ outcomes' = Append(outcomes, r.success)
       /\ op' = [op EXCEPT ![WfThread] = nxt]
       /\ result' = IF nxt = "done" THEN [result EXCEPT ![WfThread] = Returned(step, r, w)]
                                    ELSE result
       /\ IF nxt \in HubSteps
            THEN /\ BeginRequest(WfThread, nxt, Carried(nxt, w),
                                 IF nxt = CREATE_TX THEN w.amount ELSE 0)
                 /\ steps' = Append(log, nxt)
            ELSE /\ sr' = [sr EXCEPT ![WfThread] = "none"]
                 /\ steps' = log
                 /\ req' = [req EXCEPT ![WfThread] = NoMsg]
                 /\ ret' = [ret EXCEPT ![WfThread] = NoMsg]
                 /\ UNCHANGED <<nextId, polls>>

\* client.py:451-477  the call starts with step 1 whatever amount it is given
send_transaction ==
    /\ op[WfThread] = "idle"
    /\ \E a \in Amounts \cup InvalidAmounts : wf' = [wf EXCEPT !.amount = a]
    /\ op' = [op EXCEPT ![WfThread] = EXPORT_OUTPUTS]
    /\ BeginRequest(WfThread, EXPORT_OUTPUTS, "", 0)
    /\ steps' = Append(steps, EXPORT_OUTPUTS)
    /\ UNCHANGED <<pending, pending_lock, messages_sent, messages_received, hubKnown>>
    /\ UNCHANGED <<raising, result, calls, outcomes, handed, signCalls>>
    /\ UNCHANGED <<netVars, hubVars>>
    /\ UNCHANGED <<reticulumxmrVars, injected, codecVars, rpcVars, convVars, saveVars, rxcVars>>

\* client.py:285-303, 483-485  step 2 on the local cold wallet
import_outputs_locally ==
    /\ op[WfThread] = "import_outputs"
    /\ \E ok \in BOOLEAN :
         Advance("import_outputs",
                 IF ok THEN Res(TRUE, "") ELSE Res(FALSE, "rpc error"),
                 Append(steps, "import_outputs"))
    /\ UNCHANGED <<pending, pending_lock, messages_sent, messages_received, hubKnown>>
    /\ UNCHANGED <<raising, calls, handed, signCalls>>
    /\ UNCHANGED <<netVars, hubVars>>
    /\ UNCHANGED <<reticulumxmrVars, injected, codecVars, rpcVars, convVars, saveVars, rxcVars>>

\* client.py:343-363, 498-500  step 4: sign_transfer on the local cold wallet;
\* a result without signed_txset still counts as success with ""
sign_transaction_locally ==
    /\ op[WfThread] = "sign"
    /\ signCalls' = signCalls + 1
    /\ \E out \in {"ok", "empty", "error"} :
         Advance("sign",
                 CASE out = "ok" -> [Res(TRUE, "") EXCEPT !.blob = SignedOf(wf.unsigned)]
                   [] out = "empty" -> Res(TRUE, "")
                   [] out = "error" -> Res(FALSE, "rpc error"),
                 Append(steps, "sign"))
    /\ UNCHANGED <<pending, pending_lock, messages_sent, messages_received, hubKnown>>
    /\ UNCHANGED <<raising, calls, handed>>
    /\ UNCHANGED <<netVars, hubVars>>
    /\ UNCHANGED <<reticulumxmrVars, injected, codecVars, rpcVars, convVars, saveVars, rxcVars>>

\* client.py:396-411, 513-520  step 6, first half, on the local cold wallet
export_key_images_locally ==
    /\ op[WfThread] = "export_key_images"
    /\ \E ok \in BOOLEAN :
         Advance("export_key_images",
                 IF ok THEN Res(TRUE, "") ELSE Res(FALSE, "rpc error"),
                 Append(steps, "export_key_images"))
    /\ UNCHANGED <<pending, pending_lock, messages_sent, messages_received, hubKnown>>
    /\ UNCHANGED <<raising, calls, handed, signCalls>>
    /\ UNCHANGED <<netVars, hubVars>>
    /\ UNCHANGED <<reticulumxmrVars, injected, codecVars, rpcVars, convVars, saveVars, rxcVars>>

\* client.py:232-256, tui.py:518-535  a thread asks for the balance
get_balance(t) ==
    /\ op[t] = "idle"
    /\ calls[t] < MaxCalls
    /\ calls' = [calls EXCEPT ![t] = @ + 1]
    /\ op' = [op EXCEPT ![t] = BALANCE_REQUEST]
    /\ BeginRequest(t, BALANCE_REQUEST, "", 0)
    /\ UNCHANGED <<pending, pending_lock, messages_sent, messages_received, hubKnown>>
    /\ UNCHANGED <<raising, wf, result, steps, outcomes, handed, signCalls>>
    /\ UNCHANGED <<netVars, hubVars>>
    /\ UNCHANGED <<reticulumxmrVars, injected, codecVars, rpcVars, convVars, saveVars, rxcVars>>

\* client.py:225-228 and the caller's continuation: the slot is popped, then
\* the operation turns the returned value into its dict (or the exception
\* propagates out of the operation)
SR_Finally(t) ==
    /\ sr[t] = "finally"
    /\ WithLock(t)
    /\ pending' = Cleanup(t)
    /\ IF raising[t]
         THEN /\ op' = [op EXCEPT ![t] = "raised"]
              /\ sr' = [sr EXCEPT ![t] = "none"]
              /\ req' = [req EXCEPT ![t] = NoMsg]
              /\ ret' = [ret EXCEPT ![t] = NoMsg]
              /\ UNCHANGED <<polls, wf, result, steps, outcomes, nextId>>
         ELSE IF op[t] # BALANCE_REQUEST
                THEN Advance(op[t], OpResult(ResponseTypeOf(op[t]), ret[t]), steps)
                ELSE /\ result' = [result EXCEPT ![t] = OpResult(BALANCE_RESPONSE, ret[t])]
                     /\ op' = [op EXCEPT ![t] = "idle"]
                     /\ sr' = [sr EXCEPT ![t] = "none"]
                     /\ req' = [req EXCEPT ![t] = NoMsg]
                     /\ ret' = [ret EXCEPT ![t] = NoMsg]
                     /\ UNCHANGED <<polls, wf, steps, outcomes, nextId>>
    /\ UNCHANGED <<messages_sent, messages_received, hubKnown>>
    /\ UNCHANGED <<raising, calls, handed, signCalls>>
    /\ UNCHANGED <<netVars, hubVars>>
    /\ UNCHANGED <<reticulumxmrVars, injected, codecVars, rpcVars, convVars, saveVars, rxcVars>>


\* ======================================================================
\* MoneroClient._handle_lxmf_message (client.py:132-152): the router's
\* delivery callback, running concurrently with the caller threads
\* ======================================================================
\* the response is stored whether or not a slot is waiting for it
Deliver_StoreUnknown(m) ==
    IF m.type = GARBAGE
      THEN pending
      ELSE Put(pending, m.request_id, [event |-> TRUE, response |-> m])

\* the pending table after the callback handled content m
Deliver(m) ==
    IF m.type = GARBAGE
      THEN pending   \* parse_message raised; caught and logged
      ELSE IF m.request_id \in DOMAIN pending
             THEN [pending EXCEPT ![m.request_id] = [event |-> TRUE, response |-> m]]
             ELSE pending   \* logged as a response for an unknown request

MoneroClient_handle_lxmf_message(m) ==
    /\ m \in toClient
    /\ toClient' = toClient \ {m}
    /\ messages_received' = messages_received + 1
    /\ IF m.type = GARBAGE
         THEN pending_lock # Handler /\ UNCHANGED pending_lock
         ELSE WithLock(Handler)
    /\ pending' = Deliver(m)
    /\ UNCHANGED <<messages_sent, hubKnown, nextId>>
    /\ UNCHANGED <<threadVars, toHub, strays, hubVars>>
    /\ UNCHANGED <<reticulumxmrVars, injected, codecVars, rpcVars, convVars, saveVars, rxcVars>>

\* the network delivers content that answers no request of this client: an
\* Error for request id "unknown", or bytes that do not parse
StrayMessages == {[Blank(ERROR, UnknownId) EXCEPT !.error = "stray"], Blank(GARBAGE, UnknownId)}

InjectStray ==
    /\ strays < MaxStray
    /\ strays' = strays + 1
    /\ \E m \in StrayMessages : toClient' = toClient \cup {m}
    /\ UNCHANGED <<clientVars, threadVars, toHub, hubVars>>
    /\ UNCHANGED <<reticulumxmrVars, injected, codecVars, rpcVars, convVars, saveVars, rxcVars>>

\* ======================================================================
\* messages.py: one message built, written and parsed
\* ======================================================================
\* a caller builds a message
MessageBuilt ==
    /\ codecPc = "none"
    /\ codecPc' = "built"
    /\ codecMsg' \in Messages
    /\ UNCHANGED <<codecWire, codecOut>>
    /\ UNCHANGED <<lxmfVars, reticulumxmrVars, injected, rpcVars, convVars, saveVars, rxcVars>>

\* messages.py:44-46
BaseMessage_to_json ==
    /\ codecPc = "built"
    /\ codecPc' = "encoded"
    /\ codecWire' = to_json(codecMsg)
    /\ UNCHANGED <<codecMsg, codecOut>>
    /\ UNCHANGED <<lxmfVars, reticulumxmrVars, injected, rpcVars, convVars, saveVars, rxcVars>>

\* a content arrives that no message class wrote, or one of a registered type
\* with a field missing
ContentReceived ==
    /\ codecPc = "none"
    /\ codecPc' = "encoded"
    /\ codecWire' \in ForeignContents \cup MalformedContents
    /\ UNCHANGED <<codecMsg, codecOut>>
    /\ UNCHANGED <<lxmfVars, reticulumxmrVars, injected, rpcVars, convVars, saveVars, rxcVars>>

\* messages.py:398-420
ParseMessage ==
    /\ codecPc = "encoded"
    /\ codecPc' = "parsed"
    /\ codecOut' = parse_message(codecWire, ParsedAt)
    /\ UNCHANGED <<codecMsg, codecWire>>
    /\ UNCHANGED <<lxmfVars, reticulumxmrVars, injected, rpcVars, convVars, saveVars, rxcVars>>

\* ======================================================================
\* WalletRPCClient: one call and its HTTP exchange
\* ======================================================================
WalletRpcCall ==
    /\ rpcPc = "none"
    /\ rpcPc' = "returned"
    /\ \E method \in RpcMethods, x \in Exchanges :
         /\ rpcMethod' = method
         /\ rpcExchange' = x
         /\ rpcReturn' = WalletRPCClient_call(method, x)
    /\ UNCHANGED <<lxmfVars, reticulumxmrVars, injected, codecVars, convVars, saveVars, rxcVars>>

\* ======================================================================
\* MoneroHub: the amounts of one CreateTx and of one Balance
\* ======================================================================
\* hub.py:356-399  _handle_create_tx on a transfer that succeeded
MoneroHub_create_tx_amounts ==
    /\ convPc = "none"
    /\ convPc' = "create_tx"
    /\ \E a \in XmrAmounts, fee_atomic \in FeeAtomics :
         /\ convIn' = [NoAmounts EXCEPT !.amount = Literal(a.n, a.k),
                                         !.fee_atomic = fee_atomic]
         /\ convOut' = [NoConverted EXCEPT !.amount_atomic = AmountAtomic(Literal(a.n, a.k)),
                                            !.fee = Xmr(fee_atomic),
                                            !.amount = Literal(a.n, a.k)]
    /\ UNCHANGED <<lxmfVars, reticulumxmrVars, injected, codecVars, rpcVars, saveVars, rxcVars>>

\* hub.py:315-329  _handle_balance on a get_balance that succeeded
MoneroHub_balance_amounts ==
    /\ convPc = "none"
    /\ convPc' = "balance"
    /\ \E balance_atomic \in BalanceAtomics :
         /\ convIn' = [NoAmounts EXCEPT !.balance_atomic = balance_atomic]
         /\ convOut' = [NoConverted EXCEPT !.balance = Xmr(balance_atomic)]
    /\ UNCHANGED <<lxmfVars, reticulumxmrVars, injected, codecVars, rpcVars, saveVars, rxcVars>>

\* ======================================================================
\* MoneroHub (hub.py): one action per received message; the handler, its
\* wallet RPCs and _send_response run to completion in the router callback
\* ======================================================================
Balances == {5}

\* wallet_rpc.py:101-120  WalletRPCClient.transfer as called by the handler
transfer(do_not_relay) ==
    Rpc("transfer", {"destinations", "priority", "do_not_relay", "get_tx_metadata"},
        do_not_relay, "")
\* wallet_rpc.py:122-132
submit_transfer(tx_data_hex) == Rpc("submit_transfer", {"tx_data_hex"}, TRUE, tx_data_hex)
\* wallet_rpc.py:134-144
relay_tx(hex) == Rpc("relay_tx", {"hex"}, TRUE, hex)
\* parameterless calls and the calls whose params no property reads
Call(method, params) == Rpc(method, params, TRUE, "")

Failure(type, rid, error) == [Blank(type, rid) EXCEPT !.error = error]
Success(type, rid) == [Blank(type, rid) EXCEPT !.success = TRUE]
\* hub.py:199-205  the handler raised: an Error carrying the request's id
ErrorResponse(rid, error) == [Blank(ERROR, rid) EXCEPT !.error = error]

\* what one handler run did: the RPCs it issued, the response it returned and
\* the signed blobs its daemon relayed
\* wallet_rpc.py:38-76  the message of the {"error": ...} a failed call of
\* method returns
RpcError(method) == "rpc error: " \o method

\* what one handler run did: the RPCs issued, the methods among them that
\* returned an error, the response, and the transactions broadcast
HandledFailing(rpcs, failed, response, relayed) ==
    [rpcs |-> rpcs, failed |-> failed, response |-> response, relayed |-> relayed]

\* a run none of whose RPCs returned an error
Handled(rpcs, response, relayed) == HandledFailing(rpcs, <<>>, response, relayed)

\* daemon outcomes: "ok", "error" (call() returned {"error": ...}), "bad" (a
\* reply whose shape makes the handler raise), and "empty" (a result without
\* the expected field)
Outcomes == {"ok", "error", "bad"}

\* hub.py:295-329
MoneroHub_handle_balance(rq, out, bal, ignored) ==
    LET \* a failed refresh is logged and the handler goes on; get_height is
        \* read with defaults, so a failed call gives block_height 0
        refresh == IF "refresh" \in ignored THEN <<"refresh">> ELSE <<>>
        height == IF "get_height" \in ignored THEN <<"get_height">> ELSE <<>>
    IN CASE out = "error" ->
           HandledFailing(<<Call("refresh", {}), Call("get_balance", {})>>,
                          refresh \o <<"get_balance">>,
                          Failure(BALANCE_RESPONSE, rq.request_id, RpcError("get_balance")), {})
      [] out = "bad" ->
           HandledFailing(<<Call("refresh", {}), Call("get_balance", {})>>, refresh,
                          ErrorResponse(rq.request_id, "exception"), {})
      [] OTHER ->
           HandledFailing(<<Call("refresh", {}), Call("get_balance", {}),
                            Call("get_height", {})>>,
                          refresh \o height,
                          [Success(BALANCE_RESPONSE, rq.request_id) EXCEPT !.balance = bal],
                          {})

\* hub.py:331-354
MoneroHub_handle_export_outputs(rq, out, o) ==
    CASE out = "error" ->
           HandledFailing(<<Call("export_outputs", {"all"})>>, <<"export_outputs">>,
                          Failure(EXPORT_OUTPUTS_RESPONSE, rq.request_id,
                                  RpcError("export_outputs")), {})
      [] out = "bad" ->
           Handled(<<Call("export_outputs", {"all"})>>,
                   ErrorResponse(rq.request_id, "exception"), {})
      [] OTHER ->
           Handled(<<Call("export_outputs", {"all"})>>,
                   [Success(EXPORT_OUTPUTS_RESPONSE, rq.request_id) EXCEPT !.blob = o], {})

\* the transfer is left to relay
CreateTxTransfer_Relaying == transfer(FALSE)

\* hub.py:364-372  the transfer RPC of _handle_create_tx
CreateTxTransfer == transfer(TRUE)

\* hub.py:356-399
MoneroHub_handle_create_tx(rq, out, u, fee) ==
    CASE out = "error" ->
           HandledFailing(<<CreateTxTransfer>>, <<"transfer">>,
                          Failure(CREATE_TX_RESPONSE, rq.request_id, RpcError("transfer")), {})
      [] out = "bad" ->
           Handled(<<CreateTxTransfer>>, ErrorResponse(rq.request_id, "exception"), {})
      [] OTHER ->
           Handled(<<CreateTxTransfer>>,
                   [Success(CREATE_TX_RESPONSE, rq.request_id)
                      EXCEPT !.blob = u, !.fee = fee, !.amount = rq.amount], {})

\* hub.py:401-433  submit_transfer only; a result with an empty tx_hash_list
\* leaves tx_hash "" and error_msg None
\* every submit_transfer result without an error is reported as a success
MoneroHub_handle_submit_tx_SuccessOnResult(rq, out) ==
    CASE out = "error" ->
           HandledFailing(<<submit_transfer(rq.blob)>>, <<"submit_transfer">>,
                          Failure(SUBMIT_TX_RESPONSE, rq.request_id,
                                  RpcError("submit_transfer")), {})
      [] out = "bad" ->
           Handled(<<submit_transfer(rq.blob)>>,
                   ErrorResponse(rq.request_id, "exception"), {})
      [] out = "empty" ->
           Handled(<<submit_transfer(rq.blob)>>, Success(SUBMIT_TX_RESPONSE, rq.request_id), {})
      [] OTHER ->
           Handled(<<submit_transfer(rq.blob)>>,
                   [Success(SUBMIT_TX_RESPONSE, rq.request_id) EXCEPT !.blob = HashOf(rq.blob)],
                   {rq.blob})

MoneroHub_handle_submit_tx(rq, out) ==
    CASE out = "error" ->
           HandledFailing(<<submit_transfer(rq.blob)>>, <<"submit_transfer">>,
                          Failure(SUBMIT_TX_RESPONSE, rq.request_id,
                                  RpcError("submit_transfer")), {})
      [] out = "bad" ->
           Handled(<<submit_transfer(rq.blob)>>,
                   ErrorResponse(rq.request_id, "exception"), {})
      [] out = "empty" ->
           Handled(<<submit_transfer(rq.blob)>>,
                   Failure(SUBMIT_TX_RESPONSE, rq.request_id, "Unknown error"), {})
      [] OTHER ->
           Handled(<<submit_transfer(rq.blob)>>,
                   [Success(SUBMIT_TX_RESPONSE, rq.request_id) EXCEPT !.blob = HashOf(rq.blob)],
                   {rq.blob})

\* hub.py:435-462
MoneroHub_handle_import_key_images(rq, out) ==
    CASE out = "error" ->
           HandledFailing(<<Call("import_key_images", {"signed_key_images", "offset"})>>,
                          <<"import_key_images">>,
                          Failure(IMPORT_KEY_IMAGES_RESPONSE, rq.request_id,
                                  RpcError("import_key_images")), {})
      [] out = "bad" ->
           Handled(<<Call("import_key_images", {"signed_key_images", "offset"})>>,
                   ErrorResponse(rq.request_id, "exception"), {})
      [] OTHER ->
           Handled(<<Call("import_key_images", {"signed_key_images", "offset"})>>,
                   Success(IMPORT_KEY_IMAGES_RESPONSE, rq.request_id), {})

\* hub.py:175  message.content_as_string(): the content of the LXMF message rq
WireOf(rq) ==
    CASE rq.type = GARBAGE -> InvalidJson
      [] rq.type = MissingType ->
           Content("object", [k \in DOMAIN rq \ {"type"} |-> rq[k]])
      [] OTHER -> Content("object", rq)

\* hub.py:173-198, 207-231  parse_message and _process_request: the runs the
\* handler of rq can make; content that does not parse is answered with an
\* Error carrying request_id "unknown"
MoneroHub_process_request(rq) ==
    CASE ParseError(WireOf(rq)) = "JSONDecodeError" ->
           {Handled(<<>>, ErrorResponse(UnknownId, "Invalid JSON"), {})}
      [] ParseError(WireOf(rq)) = "ValueError" ->
           {Handled(<<>>, ErrorResponse(UnknownId, "Unknown message type"), {})}
      [] rq.type = BALANCE_REQUEST ->
           \* the runs in which refresh and get_height answer, and the runs
           \* in which only those two calls return an error
           {MoneroHub_handle_balance(rq, out, b, {}) : out \in Outcomes, b \in Balances}
           \cup
           {MoneroHub_handle_balance(rq, "ok", b, {"refresh", "get_height"}) : b \in Balances}
      [] rq.type = EXPORT_OUTPUTS ->
           {MoneroHub_handle_export_outputs(rq, out, o) : out \in Outcomes, o \in Outputs}
      [] rq.type = CREATE_TX ->
           UNION {{MoneroHub_handle_create_tx(rq, out, u, f) : u \in Unsigned, f \in Fees}
                  : out \in Outcomes}
      [] rq.type = SUBMIT_TX ->
           {MoneroHub_handle_submit_tx(rq, out) : out \in Outcomes \cup {"empty"}}
      [] rq.type = IMPORT_KEY_IMAGES ->
           {MoneroHub_handle_import_key_images(rq, out) : out \in Outcomes}
      [] OTHER ->
           {Handled(<<>>, ErrorResponse(rq.request_id, "Unknown request type"), {})}

\* hub.py:161-205, 233-284  _handle_lxmf_message and _send_response; the
\* response is handed to the router only if the sender's identity resolves
MoneroHub_handle_lxmf_message(m) ==
    /\ m \in toHub
    /\ toHub' = toHub \ {m}
    /\ hub_messages_received' = hub_messages_received + 1
    /\ \E h \in MoneroHub_process_request(m) :
         /\ hubHandling' = m.type
         /\ hubRpcs' = h.rpcs
         /\ hubFailed' = h.failed
         /\ hubServed' = IF h.rpcs = <<>> THEN hubServed
                          ELSE hubServed \cup {[operator_id |-> m.operator_id,
                                                wallet |-> hubWallet]}
         /\ broadcast' = broadcast \cup h.relayed
         /\ \E resolved \in BOOLEAN :
              IF resolved
                THEN /\ toClient' = toClient \cup {h.response}
                     /\ hubSent' = hubSent \cup {h.response}
                     /\ hub_messages_sent' = hub_messages_sent + 1
                ELSE UNCHANGED <<toClient, hubSent, hub_messages_sent>>
    /\ UNCHANGED <<clientVars, threadVars, strays, hubWallet>>
    /\ UNCHANGED <<reticulumxmrVars, injected, codecVars, rpcVars, convVars, saveVars, rxcVars>>

\* ======================================================================
\* HubColdSigningSession (hub_cold_signing.py): one action per received
\* message; the handler and its wallet RPCs run to completion in the channel
\* callback
\* ======================================================================
\* the wallet is generated from the spend key as well
generate_from_keys_WithSpendKey ==
    Rpc("generate_from_keys",
        {"filename", "address", "viewkey", "spendkey", "password", "restore_height",
         "autosave_current"},
        TRUE, "")

\* hub_cold_signing.py:167-175  the params of the generate_from_keys call
generate_from_keys ==
    Rpc("generate_from_keys",
        {"filename", "address", "viewkey", "password", "restore_height", "autosave_current"},
        TRUE, "")

\* hub_cold_signing.py:276-284  the transfer call of _handle_create_transaction
SessionCreateTransfer == transfer(TRUE)

VkFailure(kind, rid, error) == [VkMsg(kind, rid) EXCEPT !.error = error]
VkSuccess(kind, rid) == [VkMsg(kind, rid) EXCEPT !.success = TRUE]

\* open_wallet is called although the session is bound to the operator
_ensure_wallet_open_Reopening(s, operator) ==
    LET unchanged(rpcs, failed) ==
            [ok |-> FALSE, rpcs |-> rpcs, failed |-> failed,
             operator_id |-> current_operator_id[s],
             wallet_name |-> current_wallet_name[s], wallet_open |-> walletOpen]
        get_address == <<Call("get_address", {})>>
        open_wallet == <<Call("open_wallet", {"filename", "password"})>>
    IN  IF operator \notin DOMAIN mappings
          THEN IF current_operator_id[s] = operator /\ current_wallet_name[s] # NoWallet
                 THEN {[unchanged(<<>>, <<>>) EXCEPT !.ok = TRUE]}
                 ELSE {unchanged(get_address, <<"get_address">>)}
                      \cup
                      {[unchanged(get_address, <<>>) EXCEPT
                          !.ok = TRUE, !.operator_id = operator, !.wallet_name = DefaultWallet]
                         : w \in {walletOpen} \ {NoWallet}}
          ELSE {unchanged(open_wallet, <<"open_wallet">>),
                [unchanged(open_wallet, <<>>) EXCEPT
                   !.ok = TRUE, !.operator_id = operator,
                   !.wallet_name = mappings[operator], !.wallet_open = mappings[operator]]}

\* hub_cold_signing.py:476-512  the ways _ensure_wallet_open(operator) can
\* run in session s: whether it returned True, the RPCs it issued, the session
\* state after, and the wallet open in the daemon after. get_address returns
\* an address only if the daemon has a wallet open; any call can fail
_ensure_wallet_open(s, operator) ==
    LET unchanged(rpcs, failed) ==
            [ok |-> FALSE, rpcs |-> rpcs, failed |-> failed,
             operator_id |-> current_operator_id[s],
             wallet_name |-> current_wallet_name[s], wallet_open |-> walletOpen]
        get_address == <<Call("get_address", {})>>
        open_wallet == <<Call("open_wallet", {"filename", "password"})>>
    IN  IF current_operator_id[s] = operator /\ current_wallet_name[s] # NoWallet
          THEN {[unchanged(<<>>, <<>>) EXCEPT !.ok = TRUE]}
          ELSE IF operator \notin DOMAIN mappings
            THEN {unchanged(get_address, <<"get_address">>)}
                 \cup
                 {[unchanged(get_address, <<>>) EXCEPT
                     !.ok = TRUE, !.operator_id = operator, !.wallet_name = DefaultWallet]
                    : w \in {walletOpen} \ {NoWallet}}
            ELSE {unchanged(open_wallet, <<"open_wallet">>),
                  [unchanged(open_wallet, <<>>) EXCEPT
                     !.ok = TRUE, !.operator_id = operator,
                     !.wallet_name = mappings[operator], !.wallet_open = mappings[operator]]}

\* what one handler run did after e: its RPCs, the methods among them that
\* returned an error, the response and the transactions broadcast
SessRunFailing(e, rpcs, failed, response, sent) ==
    [rpcs |-> e.rpcs \o rpcs, failed |-> e.failed \o failed,
     response |-> response, relayed |-> sent,
     operator_id |-> e.operator_id, wallet_name |-> e.wallet_name, mappings |-> mappings,
     provisions |-> provisions, wallet_open |-> e.wallet_open]

\* a run none of whose own RPCs returned an error
SessRun(e, rpcs, response, sent) == SessRunFailing(e, rpcs, <<>>, response, sent)

\* session s as it stands, for the handlers that do not open a wallet
Unopened(s) ==
    [ok |-> TRUE, rpcs |-> <<>>, failed |-> <<>>, operator_id |-> current_operator_id[s],
     wallet_name |-> current_wallet_name[s], wallet_open |-> walletOpen]

WalletNotFound_Uncorrelated(e, kind, m) ==
    SessRun(e, <<>>, VkFailure(kind, NoId, "Wallet not found for operator"), {})

WalletNotFound(e, kind, m) ==
    SessRun(e, <<>>, VkFailure(kind, m.request_id, "Wallet not found for operator"), {})

\* hub_cold_signing.py:155-200
Session_handle_provision_wallet(m) ==
    LET wallet_name == WalletName(m.operator_id, provisions)
        ack(ok, error) == [VkMsg("ProvisionAckMessage", NoId) EXCEPT
                             !.success = ok, !.operator_id = m.operator_id, !.error = error]
        opened == [Unopened(m.link) EXCEPT !.operator_id = m.operator_id,
                                           !.wallet_name = wallet_name,
                                           !.wallet_open = wallet_name]
    IN  { [SessRunFailing(Unopened(m.link), <<generate_from_keys>>, <<"generate_from_keys">>,
                          ack(FALSE, RpcError("generate_from_keys")), {})
             EXCEPT !.provisions = provisions + 1],
          \* the mapping file could not be written: the handler raised
          [SessRun(opened, <<generate_from_keys>>, NoVkMsg, {})
             EXCEPT !.provisions = provisions + 1],
          [SessRun(opened, <<generate_from_keys>>, ack(TRUE, ""), {})
             EXCEPT !.provisions = provisions + 1,
                    !.mappings = Put(mappings, m.operator_id, wallet_name)] }

\* hub_cold_signing.py:202-251
Session_handle_balance_request(m) ==
    LET kind == "BalanceResponseMessage"
        \* a failed refresh is logged and the handler goes on
        refreshes == {<<>>, <<"refresh">>}
        \* get_height is read with defaults: a failed call gives height 0
        heights == {<<>>, <<"get_height">>}
    IN UNION {
      IF ~e.ok
        THEN {WalletNotFound(e, kind, m)}
        ELSE {SessRunFailing(e, <<Call("refresh", {}), Call("get_balance", {})>>,
                             r \o <<"get_balance">>,
                             VkFailure(kind, m.request_id, RpcError("get_balance")), {})
                : r \in refreshes}
             \cup
             {SessRunFailing(e, <<Call("refresh", {}), Call("get_balance", {}),
                                 Call("get_height", {})>>,
                             r \o h,
                             [VkSuccess(kind, m.request_id) EXCEPT !.balance = b], {})
                : r \in refreshes, h \in heights, b \in Balances}
      : e \in _ensure_wallet_open(m.link, m.operator_id) }

\* hub_cold_signing.py:253-320
Session_handle_create_transaction(m) ==
    UNION {
      IF ~e.ok
        THEN {WalletNotFound(e, "UnsignedTransactionMessage", m)}
        ELSE {SessRunFailing(e, <<SessionCreateTransfer>>, <<"transfer">>,
                             VkFailure("UnsignedTransactionMessage", m.request_id,
                                       RpcError("transfer")), {})}
             \cup
             {SessRun(e, <<SessionCreateTransfer>>,
                      [VkSuccess("UnsignedTransactionMessage", m.request_id)
                         EXCEPT !.blob = u, !.fee = f, !.amount = m.amount], {})
                : u \in Unsigned, f \in Fees}
      : e \in _ensure_wallet_open(m.link, m.operator_id) }

\* the error of the first call that failed
FirstError(failed) == RpcError(failed[1])

\* hub_cold_signing.py:362-364  error_msg is assigned from the relay_tx
\* result only: the error of the call that failed last
LastError(failed) == RpcError(failed[Len(failed)])

\* hub_cold_signing.py:322-381  submit_transfer, and relay_tx when it fails
Session_handle_signed_transaction(m) ==
    LET kind == "TransactionResultMessage"
        broadcast_ok == [VkSuccess(kind, m.request_id) EXCEPT !.blob = HashOf(m.blob)]
        submit == submit_transfer(m.blob)
        relay == relay_tx(m.blob)
    IN UNION {
      IF ~e.ok
        THEN {WalletNotFound(e, kind, m)}
        ELSE {SessRun(e, <<submit>>, broadcast_ok, {m.blob}),
              \* a result with an empty tx_hash_list
              SessRun(e, <<submit>>, VkFailure(kind, m.request_id, "Unknown error"), {}),
              SessRunFailing(e, <<submit, relay>>, <<"submit_transfer">>,
                             broadcast_ok, {m.blob}),
              \* a relay_tx result without tx_hash
              SessRunFailing(e, <<submit, relay>>, <<"submit_transfer">>,
                             VkFailure(kind, m.request_id, "Unknown error"), {}),
              SessRunFailing(e, <<submit, relay>>, <<"submit_transfer", "relay_tx">>,
                             VkFailure(kind, m.request_id, LastError(<<"submit_transfer", "relay_tx">>)),
                             {})}
      : e \in _ensure_wallet_open(m.link, m.operator_id) }

\* hub_cold_signing.py:383-426
Session_handle_export_outputs(m) ==
    UNION {
      IF ~e.ok
        THEN {WalletNotFound(e, "ExportOutputsResponseMessage", m)}
        ELSE {SessRunFailing(e, <<Call("export_outputs", {"all"})>>, <<"export_outputs">>,
                             VkFailure("ExportOutputsResponseMessage", m.request_id,
                                       RpcError("export_outputs")), {})}
             \cup
             {SessRun(e, <<Call("export_outputs", {"all"})>>,
                      [VkSuccess("ExportOutputsResponseMessage", m.request_id)
                         EXCEPT !.blob = o], {}) : o \in Outputs}
      : e \in _ensure_wallet_open(m.link, m.operator_id) }

\* hub_cold_signing.py:428-474
Session_handle_import_key_images(m) ==
    UNION {
      IF ~e.ok
        THEN {WalletNotFound(e, "ImportKeyImagesResponseMessage", m)}
        ELSE {SessRunFailing(e, <<Call("import_key_images", {"signed_key_images", "offset"})>>,
                             <<"import_key_images">>,
                             VkFailure("ImportKeyImagesResponseMessage", m.request_id,
                                       RpcError("import_key_images")), {}),
              SessRun(e, <<Call("import_key_images", {"signed_key_images", "offset"})>>,
                      VkSuccess("ImportKeyImagesResponseMessage", m.request_id), {})}
      : e \in _ensure_wallet_open(m.link, m.operator_id) }

\* hub_cold_signing.py:124-148  the isinstance chain of _handle_message
Session_dispatch(m) ==
    CASE m.kind = "ProvisionWalletMessage" -> Session_handle_provision_wallet(m)
      [] m.kind = "BalanceRequestMessage" -> Session_handle_balance_request(m)
      [] m.kind = "CreateTransactionMessage" -> Session_handle_create_transaction(m)
      [] m.kind = "SignedTransactionMessage" -> Session_handle_signed_transaction(m)
      [] m.kind = "ExportOutputsRequestMessage" -> Session_handle_export_outputs(m)
      [] m.kind = "ImportKeyImagesMessage" -> Session_handle_import_key_images(m)
      [] OTHER -> {SessRun(Unopened(m.link), <<>>, NoVkMsg, {})}

\* hub_cold_signing.py:120-153
HubColdSigningSession_handle_message(m) ==
    /\ m \in rxToHub
    /\ linkStatus[m.link] = "active"
    /\ pendingSession[m.link] # NoSession
    /\ rxToHub' = rxToHub \ {m}
    /\ message_count' = [message_count EXCEPT ![m.link] = @ + 1]
    /\ linkReceived' = [linkReceived EXCEPT ![m.link] = @ + 1]
    /\ UNCHANGED <<linkStatus, initialHandler, pendingSession, hub_sessions, sessionsCreated>>
    /\ \E h \in Session_dispatch(m) :
         /\ sessHandling' = m.kind
         /\ sessOperator' = m.operator_id
         /\ sessRpcs' = h.rpcs
         /\ sessFailed' = h.failed
         /\ sessResponse' = IF h.response = NoVkMsg THEN NoVkMsg
                             ELSE [h.response EXCEPT !.link = m.link]
         /\ sessWallet' = h.wallet_open
         /\ walletOpen' = h.wallet_open
         /\ sessBroadcast' = sessBroadcast \cup h.relayed
         /\ current_operator_id' = [current_operator_id EXCEPT ![m.link] = h.operator_id]
         /\ current_wallet_name' = [current_wallet_name EXCEPT ![m.link] = h.wallet_name]
         /\ mappings' = h.mappings
         /\ provisions' = h.provisions
         /\ IF h.response = NoVkMsg
              THEN UNCHANGED <<rxToClient, sessSent>>
              ELSE /\ rxToClient' = rxToClient \cup {[h.response EXCEPT !.link = m.link]}
                   /\ sessSent' = sessSent \cup {[h.response EXCEPT !.link = m.link]}
    /\ UNCHANGED <<lxmfVars, rxVars, injected, codecVars, rpcVars, convVars, saveVars, rxcVars>>

\* ======================================================================
\* _save_operator_mapping statement by statement: the sessions of two links
\* run their handlers on the threads that deliver their links' packets, and
\* nothing serialises their access to operator_wallets.json
\* ======================================================================
\* hub_cold_signing.py:155-190  _handle_provision_wallet of session s up to
\* its call of _save_operator_mapping, for a generate_from_keys that succeeded
Session_provision_reaches_save(s) ==
    /\ savePc[s] = "none"
    /\ injected < MaxInject
    /\ injected' = injected + 1
    /\ \E operator \in Operators :
         /\ saveArg' = [saveArg EXCEPT ![s] = [operator_id |-> operator,
                                               wallet_name |-> WalletName(operator, provisions)]]
         /\ current_operator_id' = [current_operator_id EXCEPT ![s] = operator]
         /\ current_wallet_name' = [current_wallet_name EXCEPT ![s] = WalletName(operator, provisions)]
         /\ walletOpen' = WalletName(operator, provisions)
    /\ provisions' = provisions + 1
    /\ message_count' = [message_count EXCEPT ![s] = @ + 1]
    /\ savePc' = [savePc EXCEPT ![s] = "load"]
    /\ UNCHANGED <<sessOperator, sessWallet, mappings, sessHandling, sessRpcs, sessFailed,
                   sessResponse, sessSent, sessBroadcast, saveLoaded>>
    /\ UNCHANGED <<lxmfVars, rxVars, chanVars, linkVars, codecVars, rpcVars, convVars, rxcVars>>

\* hub_cold_signing.py:518-523  mappings = json.load(open(mapping_file))
_save_operator_mapping_load(s) ==
    /\ savePc[s] = "load"
    /\ saveLoaded' = [saveLoaded EXCEPT ![s] = mappings]
    /\ savePc' = [savePc EXCEPT ![s] = "dump"]
    /\ UNCHANGED <<sessVars, saveArg>>
    /\ UNCHANGED <<lxmfVars, rxVars, chanVars, linkVars, injected, codecVars, rpcVars, convVars, rxcVars>>

\* hub_cold_signing.py:525-531  mappings[operator_id] = {...}; json.dump(mappings, ...)
_save_operator_mapping_dump(s) ==
    /\ savePc[s] = "dump"
    /\ mappings' = Put(saveLoaded[s], saveArg[s].operator_id, saveArg[s].wallet_name)
    /\ savePc' = [savePc EXCEPT ![s] = "none"]
    /\ UNCHANGED <<current_operator_id, current_wallet_name, message_count, walletOpen,
                   sessOperator, sessWallet, provisions, sessHandling, sessRpcs, sessFailed,
                   sessResponse, sessSent, sessBroadcast, saveArg, saveLoaded>>
    /\ UNCHANGED <<lxmfVars, rxVars, chanVars, linkVars, injected, codecVars, rpcVars, convVars, rxcVars>>

\* ======================================================================
\* ReticulumXMRHub (reticulumxmr/hub.py): the callbacks of one link
\* ======================================================================
\* hub.py:80-163  _link_established: with a channel whose message types
\* register, initial_message_handler and on_link_closed are set; otherwise
\* the callback returns and the link is never served
ReticulumXMRHub_link_established(l) ==
    /\ linkStatus[l] = "none"
    /\ \E served \in BOOLEAN :
         /\ linkStatus' = [linkStatus EXCEPT ![l] = IF served THEN "active" ELSE "unserved"]
         /\ initialHandler' = [initialHandler EXCEPT ![l] = served]
    /\ UNCHANGED <<pendingSession, hub_sessions, sessionsCreated, linkReceived>>
    /\ UNCHANGED <<lxmfVars, sessVars, rxVars, chanVars, injected, codecVars, rpcVars, convVars, saveVars, rxcVars>>

\* the session stays in the list
SessionsAfterClose_Kept(l) == hub_sessions

\* hub.py:158-161  self.sessions.remove(pending['session'])
SessionsAfterClose(l) ==
    SelectSeq(hub_sessions, LAMBDA x : x # pendingSession[l])

\* hub.py:112-125  create_session: a HubColdSigningSession is constructed for
\* the link, whatever the mode, kept in pending['session'] and appended to
\* self.sessions
create_session(l) ==
    /\ pendingSession' = [pendingSession EXCEPT
                             ![l] = [link |-> l, n |-> sessionsCreated[l] + 1]]
    /\ hub_sessions' = Append(hub_sessions, [link |-> l, n |-> sessionsCreated[l] + 1])
    /\ sessionsCreated' = [sessionsCreated EXCEPT ![l] = @ + 1]

\* hub.py:127-153  initial_message_handler: a ModeSelectionMessage removes the
\* handler and creates the session; any other message does so if the link has
\* no session. The channel runs the handlers it had when the message arrived,
\* so the session's own handler does not see this message
initial_message_handler(m) ==
    /\ m \in rxToHub
    /\ linkStatus[m.link] = "active"
    /\ initialHandler[m.link]
    /\ rxToHub' = rxToHub \ {m}
    /\ linkReceived' = [linkReceived EXCEPT ![m.link] = @ + 1]
    /\ IF m.kind = "ModeSelectionMessage" \/ pendingSession[m.link] = NoSession
         THEN /\ initialHandler' = [initialHandler EXCEPT ![m.link] = FALSE]
              /\ create_session(m.link)
         ELSE UNCHANGED <<initialHandler, pendingSession, hub_sessions, sessionsCreated>>
    /\ UNCHANGED linkStatus
    /\ UNCHANGED <<lxmfVars, sessVars, rxVars, rxToClient, injected, codecVars, rpcVars, convVars, saveVars, rxcVars>>

\* hub.py:155-163  on_link_closed: the session, if one was created, is closed
\* and removed from self.sessions; what was in flight on the link is lost
on_link_closed(l) ==
    /\ linkStatus[l] = "active"
    /\ linkStatus' = [linkStatus EXCEPT ![l] = "closed"]
    /\ hub_sessions' = IF pendingSession[l] # NoSession THEN SessionsAfterClose(l)
                                                          ELSE hub_sessions
    /\ rxToHub' = {m \in rxToHub : m.link # l}
    /\ UNCHANGED <<initialHandler, pendingSession, sessionsCreated, linkReceived>>
    /\ UNCHANGED <<lxmfVars, sessVars, rxVars, rxToClient, injected, codecVars, rpcVars, convVars, saveVars, rxcVars>>

\* ======================================================================
\* ReticulumXMRClient (reticulumxmr/client.py): one caller thread, and the
\* channel callback _handle_message running on the transport's thread
\* ======================================================================
RxRequest(kind, rid) == [VkMsg(kind, rid) EXCEPT !.operator_id = OperatorId]

\* client.py:125-200  connect
ReticulumXMRClient_connect ==
    /\ ~connected
    /\ rxOp = "idle"
    /\ connected' = TRUE
    /\ UNCHANGED <<_pending_requests, _response_events, rxOp, rxPc, rxId, rxLocal, rxResult,
                   rxCalls, rxDropped, now>>
    /\ UNCHANGED <<lxmfVars, sessVars, chanVars, injected, linkVars, codecVars, rpcVars, convVars, saveVars, rxcVars>>

\* time.time() moves on
Tick ==
    /\ now < MaxTime
    /\ now' = now + 1
    /\ UNCHANGED <<connected, _pending_requests, _response_events, rxOp, rxPc, rxId, rxLocal,
                   rxResult, rxCalls, rxDropped>>
    /\ UNCHANGED <<lxmfVars, sessVars, chanVars, injected, linkVars, codecVars, rpcVars, convVars, saveVars, rxcVars>>

\* the head of get_balance, export_outputs and create_and_sign_transaction:
\* the connected check, the request_id, and channel.send(msg)
RxBegin(name, prefix, kind, amount) ==
    /\ rxOp = "idle"
    /\ rxCalls < MaxRxCalls
    /\ rxCalls' = rxCalls + 1
    /\ rxLocal' = RxInit
    /\ IF ~connected
         THEN /\ rxResult' = RxRes(FALSE, "Not connected to hub")
              /\ UNCHANGED <<rxOp, rxPc, rxId, rxToHub>>
         ELSE /\ rxOp' = name
              /\ rxPc' = "sent"
              /\ rxId' = RxId(prefix, now)
              /\ rxToHub' = rxToHub \cup
                    {[RxRequest(kind, RxId(prefix, now)) EXCEPT !.amount = amount]}
              /\ rxResult' = NoRxRes
    /\ UNCHANGED <<connected, _pending_requests, _response_events, rxDropped, now, rxToClient>>
    /\ UNCHANGED <<lxmfVars, sessVars, injected, linkVars, codecVars, rpcVars, convVars, saveVars, rxcVars>>

\* client.py:232-249
ReticulumXMRClient_get_balance == RxBegin("get_balance", "bal", "BalanceRequestMessage", 0)
\* client.py:354-376
ReticulumXMRClient_export_outputs ==
    RxBegin("export_outputs", "out", "ExportOutputsRequestMessage", 0)
\* client.py:269-297
ReticulumXMRClient_create_and_sign_transaction ==
    \E a \in Amounts : RxBegin("create", "tx", "CreateTransactionMessage", a)

\* client.py:219-221  _wait_for_response creates the event and the slot
Registered(events, slots, rid) ==
    [events |-> Put(events, rid, FALSE), slots |-> Put(slots, rid, NoVkMsg)]

RX_Register ==
    /\ rxPc = "sent"
    /\ _response_events' = Registered(_response_events, _pending_requests, rxId).events
    /\ _pending_requests' = Registered(_response_events, _pending_requests, rxId).slots
    /\ rxPc' = "wait"
    /\ UNCHANGED <<connected, rxOp, rxId, rxLocal, rxResult, rxCalls, rxDropped, now>>
    /\ UNCHANGED <<lxmfVars, sessVars, chanVars, injected, linkVars, codecVars, rpcVars, convVars, saveVars, rxcVars>>

\* the dict an operation returns for the response its wait returned (NoVkMsg
\* is None); "" stands for the operation going on
RxOutcome(name, response) ==
    LET expected == CASE name = "get_balance" -> "BalanceResponseMessage"
                      [] name = "export_outputs" -> "ExportOutputsResponseMessage"
                      [] name = "create" -> "UnsignedTransactionMessage"
                      [] OTHER -> "TransactionResultMessage"
        timeout == CASE name = "get_balance" -> "Timeout waiting for balance response"
                     [] name = "export_outputs" -> "Timeout waiting for outputs"
                     [] name = "create" -> "Timeout waiting for unsigned transaction"
                     [] OTHER -> "Timeout waiting for broadcast confirmation"
    IN  IF response = NoVkMsg THEN RxRes(FALSE, timeout)
        ELSE IF response.kind # expected THEN RxRes(FALSE, "Unexpected response")
        ELSE IF ~response.success THEN RxRes(FALSE, response.error)
        ELSE [RxRes(TRUE, "") EXCEPT
                !.balance = response.balance,
                !.blob = IF name = "export_outputs" THEN response.blob ELSE "",
                !.tx_hash = IF name = "submit" THEN response.blob ELSE "",
                !.fee = IF name = "submit" THEN rxLocal.fee ELSE 0]

\* the caller after _wait_for_response returned `response`
RxReturn(response) ==
    LET r == RxOutcome(rxOp, response)
    IN  IF rxOp = "create" /\ r.success
          THEN /\ rxPc' = "sign"
               /\ rxLocal' = [rxLocal EXCEPT !.unsigned = response.blob, !.fee = response.fee]
               /\ UNCHANGED <<rxOp, rxId, rxResult>>
          ELSE /\ rxPc' = "none"
               /\ rxOp' = "idle"
               /\ rxId' = NoId
               /\ rxLocal' = RxInit
               /\ rxResult' = r

\* client.py:223-226  event.wait returned True
RX_WaitSet ==
    /\ rxPc = "wait"
    /\ _response_events[rxId]
    /\ RxReturn(_pending_requests[rxId])
    /\ _pending_requests' = Pop(_pending_requests, rxId)
    /\ _response_events' = Pop(_response_events, rxId)
    /\ UNCHANGED <<connected, rxCalls, rxDropped, now>>
    /\ UNCHANGED <<lxmfVars, sessVars, chanVars, injected, linkVars, codecVars, rpcVars, convVars, saveVars, rxcVars>>

\* client.py:227-230  event.wait timed out
RX_WaitTimeout ==
    /\ rxPc = "wait"
    /\ ~_response_events[rxId]
    /\ RxReturn(NoVkMsg)
    /\ _pending_requests' = Pop(_pending_requests, rxId)
    /\ _response_events' = Pop(_response_events, rxId)
    /\ UNCHANGED <<connected, rxCalls, rxDropped, now>>
    /\ UNCHANGED <<lxmfVars, sessVars, chanVars, injected, linkVars, codecVars, rpcVars, convVars, saveVars, rxcVars>>

\* client.py:312-334  sign_transfer on the local wallet, then channel.send of
\* the SignedTransactionMessage under the request_id of the create step
RX_Sign ==
    /\ rxPc = "sign"
    /\ \E out \in {"ok", "empty", "error"} :
         IF out = "ok"
           THEN /\ rxOp' = "submit"
                /\ rxPc' = "sent"
                /\ rxLocal' = [rxLocal EXCEPT !.signed = SignedOf(rxLocal.unsigned)]
                /\ rxToHub' = rxToHub \cup
                      {[RxRequest("SignedTransactionMessage", rxId)
                          EXCEPT !.blob = SignedOf(rxLocal.unsigned)]}
                /\ UNCHANGED <<rxId, rxResult>>
           ELSE /\ rxOp' = "idle"
                /\ rxPc' = "none"
                /\ rxId' = NoId
                /\ rxLocal' = RxInit
                /\ rxResult' = RxRes(FALSE, IF out = "error" THEN "Signing failed"
                                                             ELSE "No signed transaction returned")
                /\ UNCHANGED rxToHub
    /\ UNCHANGED <<connected, _pending_requests, _response_events, rxCalls, rxDropped, now,
                   rxToClient>>
    /\ UNCHANGED <<lxmfVars, sessVars, injected, linkVars, codecVars, rpcVars, convVars, saveVars, rxcVars>>

\* client.py:208-215  the slot table after the callback handled m
RxStore(m) ==
    IF m.request_id # NoId /\ m.request_id \in DOMAIN _pending_requests
      THEN Put(_pending_requests, m.request_id, m)
      ELSE _pending_requests

\* client.py:202-215  _handle_message
ReticulumXMRClient_handle_message(m) ==
    /\ m \in rxToClient
    /\ rxToClient' = rxToClient \ {m}
    /\ _pending_requests' = RxStore(m)
    /\ IF m.request_id # NoId /\ m.request_id \in DOMAIN _pending_requests
         THEN /\ _response_events' =
                    IF m.request_id \in DOMAIN _response_events
                      THEN Put(_response_events, m.request_id, TRUE)
                      ELSE _response_events
              /\ UNCHANGED rxDropped
         ELSE /\ rxDropped' = rxDropped \cup
                    {[msg |-> m, awaited |-> rxPc \in {"sent", "wait"} /\ m.request_id = rxId]}
              /\ UNCHANGED _response_events
    /\ UNCHANGED <<connected, rxOp, rxPc, rxId, rxLocal, rxResult, rxCalls, now, rxToHub>>
    /\ UNCHANGED <<lxmfVars, sessVars, injected, linkVars, codecVars, rpcVars, convVars, saveVars, rxcVars>>

\* ======================================================================
\* ReticulumXMRClient called from two threads at once: each call has its own
\* locals and its own Event object, the two tables are shared
\* ======================================================================
\* the amount each caller asks to send: the two differ, so that the two
\* transactions can be told apart
CallerAmount(t) == IF t = WfThread THEN 1 ELSE 2

\* client.py:239-249, 286-297  request_id = f"bal_{int(time.time()*1000)}" or
\* f"tx_{...}", then channel.send(msg)
ReticulumXMRClient_call(t) ==
    /\ connected
    /\ rxcPc[t] = "none"
    /\ \E rq \in {RxRequest("BalanceRequestMessage", RxId("bal", now))}
                 \cup {[RxRequest("CreateTransactionMessage", RxId("tx", now))
                          EXCEPT !.amount = CallerAmount(t)]} :
         /\ rxcReq' = [rxcReq EXCEPT ![t] = rq]
         /\ rxToHub' = rxToHub \cup {rq}
    /\ rxcPc' = [rxcPc EXCEPT ![t] = "sent"]
    /\ UNCHANGED <<rxcEvent, rxcEvents, rxcGot, rxVars, rxToClient>>
    /\ UNCHANGED <<lxmfVars, sessVars, injected, linkVars, codecVars, rpcVars, convVars, saveVars>>

\* client.py:219-221  _wait_for_response: event = threading.Event();
\* _response_events[request_id] = event; _pending_requests[request_id] = None
_wait_for_response_register(t) ==
    /\ rxcPc[t] \in {"sent", "sent2"}
    /\ rxcEvent' = [rxcEvent EXCEPT ![t] = FALSE]
    /\ rxcEvents' = Put(rxcEvents, rxcReq[t].request_id, t)
    /\ _pending_requests' = Put(_pending_requests, rxcReq[t].request_id, NoVkMsg)
    /\ rxcPc' = [rxcPc EXCEPT ![t] = IF rxcPc[t] = "sent" THEN "wait" ELSE "wait2"]
    /\ UNCHANGED <<rxcReq, rxcGot>>
    /\ UNCHANGED <<connected, _response_events, rxOp, rxPc, rxId, rxLocal, rxResult, rxCalls,
                   rxDropped, now>>
    /\ UNCHANGED <<lxmfVars, sessVars, chanVars, injected, linkVars, codecVars, rpcVars, convVars, saveVars>>

\* client.py:223-230  event.wait(timeout) returns; both tables are popped
\* with a default, and the slot's content (None on timeout) is returned
\* and client.py:299-309, 337-352  the caller goes on to sign only with a
\* successful UnsignedTransactionMessage, and returns after the submit wait
_wait_for_response_return(t) ==
    /\ rxcPc[t] \in {"wait", "wait2"}
    /\ LET got == IF rxcEvent[t] /\ rxcReq[t].request_id \in DOMAIN _pending_requests
                    THEN _pending_requests[rxcReq[t].request_id]
                    ELSE NoVkMsg
       IN  /\ rxcGot' = [rxcGot EXCEPT ![t] = got]
           /\ rxcPc' = [rxcPc EXCEPT ![t] =
                          IF rxcPc[t] = "wait2" THEN "done2"
                          ELSE IF /\ rxcReq[t].kind = "CreateTransactionMessage"
                                  /\ RxOutcome("create", got).success
                                 THEN "sign"
                                 ELSE "done1"]
    /\ _pending_requests' = Pop(_pending_requests, rxcReq[t].request_id)
    /\ rxcEvents' = Pop(rxcEvents, rxcReq[t].request_id)
    /\ UNCHANGED <<rxcReq, rxcEvent>>
    /\ UNCHANGED <<connected, _response_events, rxOp, rxPc, rxId, rxLocal, rxResult, rxCalls,
                   rxDropped, now>>
    /\ UNCHANGED <<lxmfVars, sessVars, chanVars, injected, linkVars, codecVars, rpcVars, convVars, saveVars>>

\* client.py:312-334  the caller signs what its first wait returned and
\* sends the SignedTransactionMessage under the request_id of its create step
ReticulumXMRClient_sign_and_submit(t) ==
    /\ rxcPc[t] = "sign"
    /\ \E out \in {"ok", "error"} :
         IF out = "ok"
           THEN /\ rxcPc' = [rxcPc EXCEPT ![t] = "sent2"]
                /\ rxToHub' = rxToHub \cup
                      {[RxRequest("SignedTransactionMessage", rxcReq[t].request_id)
                          EXCEPT !.blob = SignedOf(rxcGot[t].blob)]}
           ELSE /\ rxcPc' = [rxcPc EXCEPT ![t] = "signfail"]
                /\ UNCHANGED rxToHub
    /\ UNCHANGED <<rxcReq, rxcEvent, rxcEvents, rxcGot, rxVars, rxToClient>>
    /\ UNCHANGED <<lxmfVars, sessVars, injected, linkVars, codecVars, rpcVars, convVars, saveVars>>

\* client.py:202-215  _handle_message with the callers' Event objects
ReticulumXMRClient_handle_message_shared(m) ==
    /\ m \in rxToClient
    /\ rxToClient' = rxToClient \ {m}
    /\ _pending_requests' = RxStore(m)
    /\ rxcEvent' = IF /\ m.request_id # NoId
                      /\ m.request_id \in DOMAIN _pending_requests
                      /\ m.request_id \in DOMAIN rxcEvents
                     THEN [rxcEvent EXCEPT ![rxcEvents[m.request_id]] = TRUE]
                     ELSE rxcEvent
    /\ UNCHANGED <<rxcPc, rxcReq, rxcEvents, rxcGot, rxToHub>>
    /\ UNCHANGED <<connected, _response_events, rxOp, rxPc, rxId, rxLocal, rxResult, rxCalls,
                   rxDropped, now>>
    /\ UNCHANGED <<lxmfVars, sessVars, injected, linkVars, codecVars, rpcVars, convVars, saveVars>>

\* ======================================================================
\* requests arriving at the two hubs from arbitrary peers
\* ======================================================================
PeerId(n) == Id("peer", n)

\* an LXMF request of any type addressed to MoneroHub; a hub handles one
\* message at a time, so the order of arrival is the order of handling
RequestFromPeer ==
    /\ injected < MaxInject
    /\ toHub = {} /\ rxToHub = {}
    /\ injected' = injected + 1
    /\ \E type \in RequestTypes \cup {GARBAGE, UnknownType, MissingType, BALANCE_RESPONSE} :
         toHub' = toHub \cup
            {[Request(type, PeerId(injected + 1)) EXCEPT
                !.blob = IF type = SUBMIT_TX THEN "s1" ELSE "",
                !.amount = IF type = CREATE_TX THEN 1 ELSE 0]}
    /\ UNCHANGED <<clientVars, threadVars, toClient, strays, hubVars, reticulumxmrVars, codecVars, rpcVars, convVars, saveVars, rxcVars>>

\* an LXMF request of any request type from any operator
RequestFromOperator ==
    /\ injected < MaxInject
    /\ toHub = {}
    /\ injected' = injected + 1
    /\ \E type \in RequestTypes, operator \in Operators :
         toHub' = toHub \cup
            {[Request(type, PeerId(injected + 1)) EXCEPT
                !.operator_id = operator,
                !.blob = IF type = SUBMIT_TX THEN "s1" ELSE "",
                !.amount = IF type = CREATE_TX THEN 1 ELSE 0]}
    /\ UNCHANGED <<clientVars, threadVars, toClient, strays, hubVars, reticulumxmrVars, codecVars, rpcVars, convVars, saveVars, rxcVars>>

\* the wallet daemon is started with a wallet file: a wallet is open before
\* any session handles a message
DaemonStartsWithWallet ==
    /\ walletOpen = NoWallet
    /\ \A s \in Sessions : message_count[s] = 0
    /\ walletOpen' = PreopenedWallet
    /\ UNCHANGED <<current_operator_id, current_wallet_name, message_count, sessOperator,
                   sessWallet, mappings, provisions, sessHandling, sessRpcs, sessFailed,
                   sessResponse, sessSent, sessBroadcast>>
    /\ UNCHANGED <<lxmfVars, rxVars, chanVars, injected, linkVars, codecVars, rpcVars, convVars, saveVars, rxcVars>>

\* a channel message of any client-to-hub kind addressed to the session
MessageFromPeer ==
    /\ injected < MaxInject
    /\ toHub = {} /\ rxToHub = {}
    /\ injected' = injected + 1
    /\ \E kind \in KindsClientToHub, operator \in Operators :
         rxToHub' = rxToHub \cup
            {[VkMsg(kind, IF kind = "ProvisionWalletMessage" THEN NoId
                                                              ELSE RxId("peer", injected + 1))
                EXCEPT !.operator_id = operator,
                       !.blob = IF kind = "SignedTransactionMessage" THEN "s1" ELSE "",
                       !.amount = IF kind = "CreateTransactionMessage" THEN 1 ELSE 0]}
    /\ UNCHANGED <<lxmfVars, sessVars, rxVars, rxToClient, linkVars, codecVars, rpcVars, convVars, saveVars, rxcVars>>

\* a channel message of any client-to-hub kind arriving on any accepted link;
\* the sessions handle one message at a time, so the order of arrival is the
\* order of handling
LinkMessage(max) ==
    /\ injected < max
    /\ rxToHub = {}
    /\ injected' = injected + 1
    /\ \E kind \in KindsClientToHub, operator \in Operators, link \in Sessions :
         rxToHub' = rxToHub \cup
            {[VkMsg(kind, IF kind = "ProvisionWalletMessage" THEN NoId
                                                              ELSE RxId("peer", injected + 1))
                EXCEPT !.operator_id = operator,
                       !.link = link,
                       !.blob = IF kind = "SignedTransactionMessage" THEN "s1" ELSE "",
                       !.amount = IF kind = "CreateTransactionMessage" THEN 1 ELSE 0]}
    /\ UNCHANGED <<lxmfVars, sessVars, rxVars, rxToClient, linkVars, codecVars, rpcVars, convVars, saveVars, rxcVars>>

MessageOnLink == LinkMessage(MaxLinkMsgs)

\* the same arrivals, as few as the wallet switch between two links needs
MessageOnEitherLink == LinkMessage(MaxInject)

\* a peer sends its mode selection or a balance request on a link the hub serves
MessageOnServedLink ==
    /\ injected < MaxLinkMsgs
    /\ rxToHub = {}
    /\ injected' = injected + 1
    /\ \E kind \in {"ModeSelectionMessage", "BalanceRequestMessage"},
          link \in {l \in Sessions : linkStatus[l] = "active"} :
         rxToHub' = rxToHub \cup
            {[VkMsg(kind, IF kind = "ModeSelectionMessage" THEN NoId
                                                            ELSE RxId("peer", injected + 1))
                EXCEPT !.operator_id = OperatorId, !.link = link]}
    /\ UNCHANGED <<lxmfVars, sessVars, rxVars, rxToClient, linkVars, codecVars, rpcVars, convVars, saveVars, rxcVars>>

\* ======================================================================
\* the client, the network and the hub, whatever the callers do
Environment ==
    \/ Announce
    \/ \E t \in Threads : SR_Register(t)
    \/ \E t \in Threads : SR_Recall(t)
    \/ \E t \in Threads : SR_Poll(t)
    \/ \E t \in Threads : SR_Send(t)
    \/ \E t \in Threads : SR_WaitSet(t)
    \/ \E t \in Threads : SR_WaitTimeout(t)
    \/ \E t \in Threads : SR_Read(t)
    \/ \E t \in Threads : SR_Finally(t)
    \/ \E m \in toClient : MoneroClient_handle_lxmf_message(m)
    \/ \E m \in toHub : MoneroHub_handle_lxmf_message(m)

\* one send_transaction call against the hub
NextWorkflow ==
    \/ send_transaction
    \/ import_outputs_locally
    \/ sign_transaction_locally
    \/ export_key_images_locally
    \/ InjectStray
    \/ Environment

SpecWorkflow == Init /\ [][NextWorkflow]_vars

\* the steps of the calling thread: its own statements, its sleeps and the
\* expiry of its timeout; the thread is scheduled as long as it can run,
\* while nothing obliges the network or the hub to do anything
CallerStep ==
    \/ import_outputs_locally
    \/ sign_transaction_locally
    \/ export_key_images_locally
    \/ \E t \in Threads :
          \/ SR_Register(t) \/ SR_Recall(t) \/ SR_Poll(t) \/ SR_Send(t)
          \/ SR_WaitSet(t) \/ SR_WaitTimeout(t) \/ SR_Read(t) \/ SR_Finally(t)

FairWorkflow == SpecWorkflow /\ WF_vars(CallerStep)

\* concurrent get_balance calls on one client
NextCorrelator ==
    \/ \E t \in Threads : get_balance(t)
    \/ Environment

SpecCorrelator == Init /\ [][NextCorrelator]_vars

\* two callers, one get_balance each, with the acquisitions of pending_lock
\* as steps
NextLocks ==
    \/ \E who \in Threads \cup {Handler} : acquire(who)
    \/ \E t \in Threads : calls[t] = 0 /\ get_balance(t)
    \/ InjectStray
    \/ Environment

SpecLocks == Init /\ [][NextLocks]_vars

\* the two hubs serving whatever requests reach them
NextHubs ==
    \/ DaemonStartsWithWallet
    \/ RequestFromPeer
    \/ MessageFromPeer
    \/ \E m \in toHub : MoneroHub_handle_lxmf_message(m)
    \/ \E m \in rxToHub : HubColdSigningSession_handle_message(m)

SpecHubs == Init /\ [][NextHubs]_vars

\* MoneroHub serving the requests of several operators
NextOperators ==
    \/ RequestFromOperator
    \/ \E m \in toHub : MoneroHub_handle_lxmf_message(m)

SpecOperators == Init /\ [][NextOperators]_vars

\* one message through to_json and parse_message
NextMessages ==
    \/ MessageBuilt
    \/ BaseMessage_to_json
    \/ ContentReceived
    \/ ParseMessage

SpecMessages == Init /\ [][NextMessages]_vars

\* the sessions of two links sharing the wallet daemon
NextSessions ==
    \/ DaemonStartsWithWallet
    \/ MessageOnLink
    \/ \E m \in rxToHub : HubColdSigningSession_handle_message(m)

SpecSessions == Init /\ [][NextSessions]_vars

\* two sessions switching the daemon's wallet between their operators
NextSwitch ==
    \/ DaemonStartsWithWallet
    \/ MessageOnEitherLink
    \/ \E m \in rxToHub : HubColdSigningSession_handle_message(m)

SpecSwitch == Init /\ [][NextSwitch]_vars

\* the amounts MoneroHub converts, one request per behaviour
NextAmounts ==
    \/ MoneroHub_create_tx_amounts
    \/ MoneroHub_balance_amounts

SpecAmounts == Init /\ [][NextAmounts]_vars

\* two threads calling one ReticulumXMRClient
NextCallers ==
    \/ DaemonStartsWithWallet
    \/ ReticulumXMRClient_connect
    \/ Tick
    \/ \E t \in Threads : ReticulumXMRClient_call(t)
    \/ \E t \in Threads : _wait_for_response_register(t)
    \/ \E t \in Threads : _wait_for_response_return(t)
    \/ \E t \in Threads : ReticulumXMRClient_sign_and_submit(t)
    \/ \E m \in rxToClient : ReticulumXMRClient_handle_message_shared(m)
    \/ \E m \in rxToHub : HubColdSigningSession_handle_message(m)

SpecCallers == Init /\ [][NextCallers]_vars

\* the sessions of two links provisioning wallets
NextMappings ==
    \/ \E s \in Sessions : Session_provision_reaches_save(s)
    \/ \E s \in Sessions : _save_operator_mapping_load(s)
    \/ \E s \in Sessions : _save_operator_mapping_dump(s)

SpecMappings == Init /\ [][NextMappings]_vars

\* calls of WalletRPCClient.call, one per behaviour
NextRpc == WalletRpcCall

SpecRpc == Init /\ [][NextRpc]_vars

\* ReticulumXMRHub from its construction: links come, carry messages and close
NextLinks ==
    \/ \E l \in Sessions : ReticulumXMRHub_link_established(l)
    \/ MessageOnServedLink
    \/ \E m \in rxToHub : initial_message_handler(m)
    \/ \E m \in rxToHub : HubColdSigningSession_handle_message(m)
    \/ \E l \in Sessions : on_link_closed(l)

SpecLinks == InitLinks /\ [][NextLinks]_vars

\* one ReticulumXMRClient on its link to a HubColdSigningSession
NextChannel ==
    \/ DaemonStartsWithWallet
    \/ ReticulumXMRClient_connect
    \/ Tick
    \/ ReticulumXMRClient_get_balance
    \/ ReticulumXMRClient_export_outputs
    \/ ReticulumXMRClient_create_and_sign_transaction
    \/ RX_Register
    \/ RX_WaitSet
    \/ RX_WaitTimeout
    \/ RX_Sign
    \/ \E m \in rxToClient : ReticulumXMRClient_handle_message(m)
    \/ \E m \in rxToHub : HubColdSigningSession_handle_message(m)

SpecChannel == Init /\ [][NextChannel]_vars


\* ======================================================================
\* Properties of send_transaction (SpecWorkflow)
\* ======================================================================
StepOrder ==
    <<EXPORT_OUTPUTS, "import_outputs", CREATE_TX, "sign", SUBMIT_TX, "export_key_images",
      IMPORT_KEY_IMAGES>>

WfReturned == op[WfThread] = "done"
WfResult == result[WfThread]

C4_NoRetry ==
    /\ \A k \in RequestTypes : handed[k] <= 1
    /\ signCalls <= 1
    /\ messages_sent <= Len(steps)
    /\ Cardinality({m \in toHub : m.type = SUBMIT_TX}) <= 1

\* a submit request timed out and the call returned, the request sent once
C4_Witness ==
    /\ WfReturned
    /\ WfResult.step = "Submit tx failed"
    /\ WfResult.error = "Request timed out"
    /\ handed[SUBMIT_TX] = 1
    /\ signCalls = 1

\* C5 (as claimed): the caller never gets an ambiguous outcome: a returned
\* success=false means the hub has not broadcast the workflow's signed
\* transaction, and a broadcast means the result is success=true with the
\* hub's tx_hash.
C5_Unambiguous ==
    WfReturned =>
        /\ ~WfResult.success => broadcast = {}
        /\ broadcast # {} => (WfResult.success /\ WfResult.tx_hash = HashOf(wf.signed))

\* C6: if steps 1-5 all succeeded the call returns success=true with the
\* tx_hash of the hub's SubmitTx response and the fee of the hub's CreateTx
\* response, whatever step 6 did; a failure in step 6 repeats no earlier step.
Steps1to5Succeeded == Len(outcomes) >= 5 /\ \A k \in 1..5 : outcomes[k]

HandlerStep == messages_received' # messages_received
Handled_ == toClient \ toClient'

C9_UnknownResponseIgnored ==
    [][(HandlerStep /\ \A m \in Handled_ : m.request_id \notin DOMAIN pending) =>
          /\ messages_received' = messages_received + 1
          /\ pending' = pending
          /\ UNCHANGED <<messages_sent, hubKnown, nextId>>
          /\ UNCHANGED threadVars
          /\ UNCHANGED <<toHub, hubVars>>]_vars

\* a response nobody asked for was handled while the caller was waiting, and
\* the caller is still waiting on an unset event
C9_Witness ==
    /\ messages_received = 1
    /\ hubSent = {}
    /\ strays = 1
    /\ toClient = {}
    /\ sr[WfThread] = "wait"
    /\ ~pending[RequestId(WfThread)].event

\* ======================================================================
\* Properties of the pending table (SpecCorrelator)
\* ======================================================================
InCall(t) == sr[t] \in {"recall", "poll", "send", "wait", "read", "finally"}

\* C7: the pending entry of a _send_request call is absent once the call has
\* returned, on every exit path; the table holds only the slots of the calls
\* in progress and is empty when none is.
C7_NoSlotLeak ==
    /\ DOMAIN pending \subseteq {RequestId(t) : t \in {u \in Threads : InCall(u)}}
    /\ (\A t \in Threads : sr[t] = "none") => pending = <<>>

\* one call left through the exception path and the other timed out
C7_Witness ==
    /\ \E t \in Threads : op[t] = "raised"
    /\ \E t \in Threads : op[t] = "idle" /\ result[t].error = "Request timed out"
    /\ \A t \in Threads : sr[t] = "none"

\* C10: of two calls in flight at once, a response carrying A's request_id
\* wakes only A and is returned only by A, and no step of A (reading,
\* timing out, cleaning up) removes or alters B's slot.
OwnStep(t) == sr'[t] # sr[t] \/ op'[t] # op[t]

C10_Matching ==
    /\ \A t \in Threads : ret[t] # NoMsg => ret[t].request_id = RequestId(t)
    /\ \A id \in DOMAIN pending :
         pending[id].response # NoMsg => pending[id].response.request_id = id

C10_Independent ==
    /\ []C10_Matching
    /\ [][\A id \in DOMAIN pending :
            (HandlerStep /\ \A m \in Handled_ : m.request_id # id) =>
               (id \in DOMAIN pending' /\ pending'[id] = pending[id])]_vars
    /\ [][\A a, b \in Threads :
            (a # b /\ OwnStep(a) /\ InCall(b) /\ RequestId(b) \in DOMAIN pending) =>
               /\ RequestId(b) \in DOMAIN pending'
               /\ pending'[RequestId(b)] = pending[RequestId(b)]]_vars

\* both calls wait; one has been answered and the other has not
C10_Witness ==
    /\ \A t \in Threads : sr[t] = "wait"
    /\ \E a, b \in Threads :
         /\ pending[RequestId(a)].event
         /\ pending[RequestId(a)].response.request_id = RequestId(a)
         /\ ~pending[RequestId(b)].event

\* ======================================================================
\* Properties of the two hubs (SpecHubs)
\* ======================================================================
RpcsOf(rpcs) == {rpcs[i] : i \in 1..Len(rpcs)}
Broadcasting(r) ==
    \/ r.method \in {"submit_transfer", "relay_tx"}
    \/ r.method = "transfer" /\ ~r.do_not_relay

\* the RPCs of the request each hub handled last are allowed for that request
RpcsAllowed ==
    /\ \A r \in RpcsOf(hubRpcs) :
         /\ r.method = "transfer" => (r.do_not_relay /\ hubHandling = CREATE_TX)
         /\ Broadcasting(r) => hubHandling = SUBMIT_TX
    /\ \A r \in RpcsOf(sessRpcs) :
         /\ r.method = "transfer" =>
               (r.do_not_relay /\ sessHandling = "CreateTransactionMessage")
         /\ Broadcasting(r) => sessHandling = "SignedTransactionMessage"

\* C1: in MoneroHub and in HubColdSigningSession every transfer RPC issued
\* while handling a CreateTx request carries do_not_relay=true, and a
\* broadcasting RPC (submit_transfer, relay_tx) is issued, and a transaction
\* relayed, only while handling a SubmitTx / SignedTransaction request.
C1_NoBroadcastBeforeSubmit ==
    /\ []RpcsAllowed
    /\ [][broadcast' # broadcast => hubHandling' = SUBMIT_TX]_vars
    /\ [][sessBroadcast' # sessBroadcast => sessHandling' = "SignedTransactionMessage"]_vars

\* each hub has just served a CreateTx with its transfer RPC
C1_Witness ==
    /\ hubHandling = CREATE_TX
    /\ \E r \in RpcsOf(hubRpcs) : r.method = "transfer"
    /\ sessHandling = "CreateTransactionMessage"
    /\ \E r \in RpcsOf(sessRpcs) : r.method = "transfer"
    /\ \E m \in sessSent : m.kind = "UnsignedTransactionMessage" /\ m.success

SpendKeyFields == {"spendkey", "spend_key", "spend"}

\* C2: the generate_from_keys RPC a session issues for a
\* ProvisionWalletMessage has no spendkey parameter, no message kind of the
\* protocol packs a spend-key field, and no message or RPC of the session
\* carries one, in particular when a Balance request is served after a
\* provision.
C2_NoSpendKey ==
    /\ \A r \in RpcsOf(sessRpcs) :
         /\ r.params \cap SpendKeyFields = {}
         /\ r.method = "generate_from_keys" =>
               /\ sessHandling = "ProvisionWalletMessage"
               /\ r.params = {"filename", "address", "viewkey", "password", "restore_height",
                              "autosave_current"}
    /\ \A k \in VIEW_KEY_MESSAGE_TYPES : PackedFields(k) \cap SpendKeyFields = {}
    /\ \A m \in rxToHub \cup rxToClient \cup sessSent : m.fields \cap SpendKeyFields = {}

\* a Balance request of the provisioned operator was served from the wallet
\* the provision created
C2_Witness ==
    /\ sessHandling = "BalanceRequestMessage"
    /\ \E o \in DOMAIN mappings :
         /\ current_operator_id[MainLink] = o
         /\ current_wallet_name[MainLink] = mappings[o]
         /\ \E m \in sessSent :
              m.kind = "ProvisionAckMessage" /\ m.success /\ m.operator_id = o
    /\ \E m \in sessSent : m.kind = "BalanceResponseMessage" /\ m.success
    /\ Len(sessRpcs) = 3

\* ======================================================================
\* Properties of ReticulumXMRClient (SpecChannel)
\* ======================================================================
\* C8 (as claimed): a response delivered to _handle_message at any moment
\* after channel.send, while the caller has not returned, is matched to the
\* caller's slot and never dropped.
C8_ResponseMatched == \A d \in rxDropped : ~d.awaited

\* ----------------------------------------------------------------------
\* the wallet RPCs that operate on the wallet open in the daemon
WalletOperations ==
    {"refresh", "get_balance", "export_outputs", "transfer", "submit_transfer",
     "relay_tx", "import_key_images"}

\* the message handled last had its wallet operations served
OperationsServed == \E r \in RpcsOf(sessRpcs) : r.method \in WalletOperations

\* C11: with several sessions on one wallet daemon, whenever a session issues
\* a wallet operation for a request whose operator_id has a mapping, the wallet
\* open in the daemon at that moment is the wallet mapped to that operator_id
C11_WalletOfOperator ==
    (OperationsServed /\ sessOperator \in DOMAIN mappings)
        => sessWallet = mappings[sessOperator]

\* ----------------------------------------------------------------------
\* C12: MoneroHub serves each request from the wallet bound to the request's
\* operator_id: requests of two different operator_ids are never served from
\* the same wallet
C12_WalletPerOperator ==
    \A p, q \in hubServed : p.wallet = q.wallet => p.operator_id = q.operator_id

\* ----------------------------------------------------------------------
\* the request kinds whose handlers open the operator's wallet first
OperationKinds ==
    {"BalanceRequestMessage", "CreateTransactionMessage", "SignedTransactionMessage",
     "ExportOutputsRequestMessage", "ImportKeyImagesMessage"}

\* the response kind paired with each request kind of the session
PairedKind(kind) ==
    CASE kind = "BalanceRequestMessage" -> "BalanceResponseMessage"
      [] kind = "CreateTransactionMessage" -> "UnsignedTransactionMessage"
      [] kind = "SignedTransactionMessage" -> "TransactionResultMessage"
      [] kind = "ExportOutputsRequestMessage" -> "ExportOutputsResponseMessage"
      [] kind = "ImportKeyImagesMessage" -> "ImportKeyImagesResponseMessage"

\* m asks for a wallet operation for an operator without a mapping while the
\* daemon has no wallet open
WalletMissing(m) ==
    /\ m.kind \in OperationKinds
    /\ m.operator_id \notin DOMAIN mappings
    /\ walletOpen = NoWallet

\* C13: a Balance, CreateTransaction, SignedTransaction, ExportOutputs or
\* ImportKeyImages message for an operator without a mapping, with no wallet
\* open in the daemon, is answered with exactly one response of the paired
\* kind, success=false, error 'Wallet not found for operator' and the
\* request's request_id; the only RPC is the failed get_address, the binding
\* of operators and wallets is unchanged, and the session goes on handling
\* the messages that follow
C13_WalletNotFound ==
    /\ [](\A m \in rxToHub : ENABLED HubColdSigningSession_handle_message(m))
    /\ [][\A m \in rxToHub :
            (WalletMissing(m) /\ rxToHub' = rxToHub \ {m}) =>
               /\ rxToClient' \ rxToClient =
                     {[VkFailure(PairedKind(m.kind), m.request_id,
                                 "Wallet not found for operator") EXCEPT !.link = m.link]}
               /\ sessRpcs' = <<Call("get_address", {})>>
               /\ sessBroadcast' = sessBroadcast
               /\ UNCHANGED <<current_operator_id, current_wallet_name, mappings,
                              walletOpen>>]_vars

\* a wallet-not-found answer was sent and the session handled a later message
C13_Witness ==
    /\ \E r \in sessSent : r.error = "Wallet not found for operator"
    /\ message_count[MainLink] = 2
    /\ sessRpcs # <<Call("get_address", {})>>

\* ----------------------------------------------------------------------
\* the methods of the RPCs issued, in call order
Methods(rpcs) == [i \in 1..Len(rpcs) |-> rpcs[i].method]
IsBroadcast(method) == method \in {"submit_transfer", "relay_tx"}

\* the session handled a SignedTransaction last and got past opening the wallet
SignedSubmitted ==
    /\ sessHandling = "SignedTransactionMessage"
    /\ \E r \in RpcsOf(sessRpcs) : IsBroadcast(r.method)

\* C14: _handle_signed_transaction broadcasts submit_transfer first and relay_tx
\* only after submit_transfer returned an error; a success response carries
\* the hash of the call that did not fail; when both calls returned errors the
\* response is a failure carrying the error of relay_tx, the last one
C14_SubmitThenRelay ==
    SignedSubmitted =>
        LET broadcasts == SelectSeq(Methods(sessRpcs), IsBroadcast)
            last == sessRpcs[Len(sessRpcs)]
        IN  /\ broadcasts \in {<<"submit_transfer">>, <<"submit_transfer", "relay_tx">>}
            /\ "relay_tx" \in RpcsOf(broadcasts) => "submit_transfer" \in RpcsOf(sessFailed)
            /\ sessResponse.kind = "TransactionResultMessage"
            /\ sessResponse.success =>
                  /\ last.method \notin RpcsOf(sessFailed)
                  /\ sessResponse.blob = HashOf(last.blob)
            /\ {"submit_transfer", "relay_tx"} \subseteq RpcsOf(sessFailed) =>
                  /\ ~sessResponse.success
                  /\ sessResponse.error = RpcError("relay_tx")

\* both broadcasts failed for a SignedTransaction no CreateTransaction preceded
C14_Witness ==
    /\ SignedSubmitted
    /\ {"submit_transfer", "relay_tx"} \subseteq RpcsOf(sessFailed)
    /\ message_count[MainLink] = 1

\* ----------------------------------------------------------------------
\* C15: when submit_transfer is rejected in MoneroHub._handle_submit_tx, the
\* hub falls back to relay_tx with the same blob
C15_RelayFallback ==
    (hubHandling = SUBMIT_TX /\ "submit_transfer" \in RpcsOf(hubFailed)) =>
        \E r \in RpcsOf(hubRpcs) : r.method = "relay_tx" /\ r.blob = hubRpcs[1].blob

\* ----------------------------------------------------------------------
\* C16: every response a hub sends carries the request_id of the request that
\* caused it, on success and on every failure path, the Error messages for a
\* request of an unrecognised kind or whose handler raised included, in
\* MoneroHub and in HubColdSigningSession (content that is not JSON carries
\* no request_id and is left out)
C16_ResponseCarriesRequestId ==
    [][/\ \A m \in toHub :
            (toHub' = toHub \ {m} /\ m.type # GARBAGE) =>
                \A r \in toClient' \ toClient : r.request_id = m.request_id
       /\ \A m \in rxToHub :
            (rxToHub' = rxToHub \ {m} /\ sessResponse' # NoVkMsg) =>
                sessResponse'.request_id = m.request_id]_vars

\* ----------------------------------------------------------------------
\* the failed calls of a handler run that no later call made good: a rejected
\* submit_transfer is made good by the relay_tx that follows it
Unrecovered(rpcs, failed) ==
    IF "relay_tx" \in RpcsOf(Methods(rpcs)) /\ "relay_tx" \notin RpcsOf(failed)
      THEN RpcsOf(failed) \ {"submit_transfer"}
      ELSE RpcsOf(failed)

\* C17: in every request handler of both hubs, if a wallet RPC returned an
\* error the response has success=false and a non-empty error; refresh and
\* get_height of the Balance handlers included
C17_RpcErrorsSurface ==
    [][/\ (Unrecovered(hubRpcs', hubFailed') # {}) =>
            \A r \in toClient' \ toClient : ~r.success /\ r.error # ""
       /\ (Unrecovered(sessRpcs', sessFailed') # {}) =>
            \A r \in rxToClient' \ rxToClient : ~r.success /\ r.error # ""]_vars

\* ----------------------------------------------------------------------
\* C18: send_transaction validates the amount before step 1: called with an
\* amount that is zero or negative it returns a failure without sending
\* ExportOutputs or any other message and without calling the local wallet
C18_AmountValidated ==
    (op[WfThread] # "idle" /\ wf.amount \in InvalidAmounts) =>
        /\ steps = <<>>
        /\ messages_sent = 0
        /\ toHub = {}

\* ----------------------------------------------------------------------
\* a message was built, written with to_json and the content parsed
RoundTrip == codecPc = "parsed" /\ codecMsg # NoObject

\* C19: for every message m of each of the 11 kinds of MESSAGE_CLASSES,
\* parse_message(m.to_json()) is a message of the same class with the same
\* type, the same request_id and the same payload fields
C19_RoundTrip ==
    RoundTrip =>
        /\ codecOut.raised = ""
        /\ codecOut.msg.class = codecMsg.class
        /\ DOMAIN codecOut.msg.fields = DOMAIN codecMsg.fields
        /\ \A k \in DOMAIN codecMsg.fields \ {"timestamp"} :
              codecOut.msg.fields[k] = codecMsg.fields[k]

\* a response without an error went through: its error is None on both sides
C19_Witness ==
    /\ RoundTrip
    /\ codecMsg.class = "CreateTxResponse"
    /\ codecMsg.fields.error = Null
    /\ codecOut.msg.fields.unsigned_txset = "x"

\* ----------------------------------------------------------------------
\* the content of m is no JSON, or JSON whose "type" is missing or unknown
Unparseable(m) == m.type \in {GARBAGE, UnknownType, MissingType}

Malformed(content) ==
    /\ content.json = "object"
    /\ "type" \in DOMAIN content.obj
    /\ content.obj.type \in DOMAIN RequiredPayload
    /\ ~(RequiredPayload[content.obj.type] \subseteq DOMAIN content.obj)

\* C21: parsing a content of a known kind whose payload lacks a field (a
\* create_tx without destination or amount, a submit_tx without signed_txset)
\* raises, and no typed request is produced
C21_MalformedRejected ==
    (codecPc = "parsed" /\ Malformed(codecWire)) =>
        /\ codecOut.raised # ""
        /\ codecOut.msg = NoObject

\* ----------------------------------------------------------------------
\* messages carrying the request_id of t's running call, anywhere in transit
InTransit(t) == {m \in toHub \cup toClient \cup hubSent : m.request_id = RequestId(t)}

\* t's call leaves the path-resolution loop with the hub still unknown
GivesUp(t) == sr[t] = "poll" /\ sr'[t] = "finally"

\* C22: while the hub's identity is unresolved the call holds its slot and has
\* handed nothing to the transport; after the 30th poll without an identity
\* _send_request returns None with messages_sent unchanged, and get_balance
\* then pops the slot and returns success=false, "Request timed out" without
\* raising, the thread being idle again
C22_UnresolvedTimesOut ==
    /\ [](\A t \in Threads :
            sr[t] \in {"recall", "poll"} =>
               RequestId(t) \in DOMAIN pending /\ InTransit(t) = {})
    /\ [][\A t \in Threads :
            GivesUp(t) =>
               /\ ~hubKnown
               /\ polls[t] + 1 = PathPolls
               /\ ret'[t] = NoMsg
               /\ ~raising'[t]
               /\ messages_sent' = messages_sent
               /\ toHub' = toHub]_vars
    /\ [][\A t \in Threads :
            (sr[t] = "finally" /\ sr'[t] = "none" /\ ret[t] = NoMsg /\ ~raising[t]
               /\ op[t] = BALANCE_REQUEST) =>
               /\ result'[t] = Res(FALSE, "Request timed out")
               /\ RequestId(t) \notin DOMAIN pending'
               /\ op'[t] = "idle"]_vars

\* one call gave up on the unresolved hub (the only message ever sent is the
\* other call's), and the other call, made on the same client after the
\* announce arrived, was answered
C22_Witness ==
    \E a, b \in Threads :
       /\ a # b
       /\ calls[a] = 1 /\ op[a] = "idle" /\ sr[a] = "none"
       /\ result[a] = Res(FALSE, "Request timed out")
       /\ result[b].success
       /\ messages_sent = 1
       /\ pending = <<>>

\* ----------------------------------------------------------------------
\* the sessions in self.sessions
SessionsListed == {hub_sessions[i] : i \in 1..Len(hub_sessions)}

\* the links that have received a message and have not closed
LinksBound == {l \in Sessions : linkReceived[l] > 0 /\ linkStatus[l] = "active"}

\* C23: a link gets at most one HubColdSigningSession; it is created by the
\* first message the link receives, whatever the message; closing the link
\* removes it; so self.sessions holds, once each, exactly the sessions of the
\* links that have received a message and have not closed
C23_LinkLifecycle ==
    /\ [](/\ \A l \in Sessions : sessionsCreated[l] <= 1
          /\ SessionsListed = {pendingSession[l] : l \in LinksBound}
          /\ Len(hub_sessions) = Cardinality(LinksBound))
    /\ [][\A l \in Sessions :
            /\ sessionsCreated'[l] # sessionsCreated[l] =>
                  linkReceived[l] = 0 /\ linkReceived'[l] = 1
            /\ (linkReceived[l] = 0 /\ linkReceived'[l] = 1) =>
                  sessionsCreated'[l] = 1 /\ pendingSession'[l] \in SessionsListed'
            /\ (linkStatus[l] = "active" /\ linkStatus'[l] = "closed") =>
                  pendingSession[l] \notin SessionsListed']_vars

\* one link was bound by a balance request and has closed, its session gone
\* from the list, while the other link's session, created by a mode
\* selection, has handled a message
C23_Witness ==
    \E a, b \in Sessions :
       /\ linkStatus[a] = "closed" /\ sessionsCreated[a] = 1 /\ linkReceived[a] = 1
       /\ linkStatus[b] = "active" /\ message_count[b] = 1
       /\ hub_sessions = <<pendingSession[b]>>

\* ----------------------------------------------------------------------
\* C24: WalletRPCClient.call lets no exception through; the dict it returns
\* has exactly one of the keys "result" and "error"; a timeout gives code -1,
\* a connection failure that is no timeout code -2, any other exception code
\* -3, and an error the daemon reported is returned as the daemon sent it
C24_CallNeverRaises ==
    rpcPc = "returned" =>
        /\ rpcReturn.raised = ""
        /\ DOMAIN rpcReturn.dict \in {{"result"}, {"error"}}
        /\ rpcExchange.raised \in Timeouts => rpcReturn.dict.error.code = -1
        /\ rpcExchange.raised \in ConnectionErrors \ Timeouts =>
              rpcReturn.dict.error.code = -2
        /\ rpcExchange.raised \in OtherExceptions => rpcReturn.dict.error.code = -3
        /\ rpcExchange.body.json \in {"array", "null", "string"} =>
              rpcReturn.dict.error.code = -3
        /\ (rpcExchange.body.json = "object" /\ "error" \in DOMAIN rpcExchange.body.obj) =>
              rpcReturn.dict = [error |-> rpcExchange.body.obj.error]
        /\ (rpcExchange.body.json = "object" /\ "error" \notin DOMAIN rpcExchange.body.obj) =>
              DOMAIN rpcReturn.dict = {"result"}

\* a call whose reply was no JSON returned code -3
C24_Witness ==
    /\ rpcPc = "returned"
    /\ rpcExchange.raised = "JSONDecodeError"
    /\ rpcReturn = RpcFailure(-3, "JSONDecodeError")

\* ----------------------------------------------------------------------
\* C25: the fee and the amount of a CreateTx response, and the balance of a
\* Balance response, times 1e12, are exactly the daemon's atomic fee, the
\* atomic amount passed to transfer, and the daemon's atomic balance
C25_ExactAtomicRoundTrip ==
    /\ convPc = "create_tx" =>
          /\ BackToAtomic(convOut.fee) = FromInt(convIn.fee_atomic)
          /\ BackToAtomic(convOut.amount) = FromInt(convOut.amount_atomic)
    /\ convPc = "balance" =>
          BackToAtomic(convOut.balance) = FromInt(convIn.balance_atomic)

\* ======================================================================
\* Properties of pending_lock (SpecLocks)
\* ======================================================================
\* the with-block who holds the lock for can run
CanProceed(who) ==
    IF who = Handler
      THEN \E m \in toClient : ENABLED MoneroClient_handle_lxmf_message(m)
      ELSE ENABLED (SR_Register(who) \/ SR_Read(who) \/ SR_Finally(who))

\* this step inserts into, reads or removes from the pending table
TableStep(t) == sr[t] \in LockedAt /\ sr'[t] # sr[t]

\* ----------------------------------------------------------------------
\* C26: every insert, lookup and removal on the pending table runs with
\* pending_lock held by the thread doing it and by nobody else; the lock is
\* never held by a caller that sleeps for the path, hands a message to the
\* transport or waits on its event; whoever holds the lock can finish its
\* block, so callers and the inbound handler never deadlock
C26_LockDiscipline ==
    /\ [](\A t \in Threads : pending_lock = t => sr[t] \in LockedAt)
    /\ [](pending_lock # "free" => CanProceed(pending_lock))
    /\ [][\A t \in Threads : TableStep(t) =>
             pending_lock \in {"free", t} /\ pending_lock' = "free"]_vars
    /\ [][pending' # pending =>
             /\ pending_lock' = "free"
             /\ \/ \E t \in Threads : TableStep(t) /\ pending_lock \in {"free", t}
                \/ HandlerStep /\ pending_lock \in {"free", Handler}]_vars

\* the handler holds the lock while one caller is about to pop its slot and
\* the other waits on its event
C26_Witness ==
    /\ pending_lock = Handler
    /\ \E a, b \in Threads : sr[a] = "finally" /\ sr[b] = "wait"

\* ======================================================================
\* Properties of HubColdSigningSession._handle_message (SpecSessions)
\* ======================================================================
RequestKinds == OperationKinds \cup {"ProvisionWalletMessage"}

ResponseKindOf(kind) ==
    IF kind = "ProvisionWalletMessage" THEN "ProvisionAckMessage" ELSE PairedKind(kind)

\* ----------------------------------------------------------------------
\* C27: every ProvisionWallet, Balance, CreateTransaction, SignedTransaction,
\* ExportOutputs or ImportKeyImages message a session receives is answered
\* by one response of the paired kind on the channel, on every path through
\* the handler, and the session goes on handling the messages that follow
C27_AlwaysAnswered ==
    /\ [](\A m \in rxToHub : m.kind \in RequestKinds =>
             ENABLED HubColdSigningSession_handle_message(m))
    /\ [][\A m \in rxToHub :
            (m.kind \in RequestKinds /\ rxToHub' = rxToHub \ {m}) =>
               /\ sessResponse' # NoVkMsg
               /\ sessResponse'.kind = ResponseKindOf(m.kind)
               /\ sessResponse' \in rxToClient'
               /\ sessSent' \ sessSent \subseteq {sessResponse'}]_vars

\* ======================================================================
\* Properties of MoneroHub._handle_lxmf_message (SpecOperators)
\* ======================================================================
\* C28: for every message MoneroHub receives, one response is handed to the
\* transport for the sender, and messages_sent never exceeds
\* messages_received
C28_OneResponsePerMessage ==
    /\ [](hub_messages_sent <= hub_messages_received)
    /\ [][\A m \in toHub :
            toHub' = toHub \ {m} =>
               /\ hub_messages_received' = hub_messages_received + 1
               /\ hub_messages_sent' = hub_messages_sent + 1
               /\ \E r \in hubSent' : r \in toClient' /\ r.type # "none"]_vars

\* ======================================================================
\* Properties of a stored response (SpecCorrelator)
\* ======================================================================
\* the handler stored a response in the slot of the call thread t is in
Stored(t) ==
    /\ RequestId(t) \in DOMAIN pending
    /\ pending[RequestId(t)].response # NoMsg

\* ----------------------------------------------------------------------
\* C29: a call whose slot the inbound handler stored a response in returns
\* that response, however the handler interleaves with the expiry of the
\* caller's timeout and with its cleanup
C29_StoredResponseReturned ==
    [][\A t \in Threads :
         (sr[t] = "finally" /\ sr'[t] # "finally" /\ Stored(t)) =>
            /\ ret[t] = pending[RequestId(t)].response
            /\ result'[t].success \/ result'[t].error # "Request timed out"]_vars

\* ======================================================================
\* Properties of _handle_provision_wallet (SpecSessions)
\* ======================================================================
\* C30: a ProvisionWallet message changes state iff generate_from_keys
\* succeeded: then the session is bound to the operator and the new wallet,
\* the operator's mapping is written or overwritten with that wallet, and
\* the ack has success=true; on an RPC error the binding and the mappings
\* are unchanged and the ack has success=false with the daemon's message; in
\* both cases one ProvisionAck is sent
C30_ProvisionAllOrNothing ==
    [][\A m \in rxToHub :
         (m.kind = "ProvisionWalletMessage" /\ rxToHub' = rxToHub \ {m}) =>
            LET succeeded == sessFailed' = <<>>
                wallet_name == WalletName(m.operator_id, provisions)
            IN  /\ sessRpcs' = <<generate_from_keys>>
                /\ sessResponse' \in rxToClient'
                /\ sessResponse'.kind = "ProvisionAckMessage"
                /\ sessResponse'.success = succeeded
                /\ sessSent' \ sessSent \subseteq {sessResponse'}
                /\ succeeded =>
                      /\ current_operator_id'[m.link] = m.operator_id
                      /\ current_wallet_name'[m.link] = wallet_name
                      /\ mappings' = Put(mappings, m.operator_id, wallet_name)
                /\ ~succeeded =>
                      /\ UNCHANGED <<current_operator_id, current_wallet_name, mappings>>
                      /\ sessResponse'.error = RpcError("generate_from_keys")]_vars

\* ======================================================================
\* Properties of _save_operator_mapping (SpecMappings)
\* ======================================================================
\* C31: provisioning operator A changes only A's entry of the mapping: the
\* entries of every other operator are as they were, also when two sessions
\* provision different operators at the same time
C31_OtherEntriesPreserved ==
    [][\A s \in Sessions :
         (savePc[s] = "dump" /\ savePc'[s] = "none") =>
            \A operator \in DOMAIN mappings \ {saveArg[s].operator_id} :
               /\ operator \in DOMAIN mappings'
               /\ mappings'[operator] = mappings[operator]]_vars

\* ======================================================================
\* Properties of _ensure_wallet_open (SpecSwitch)
\* ======================================================================
\* session s is bound to operator
Bound(s, operator) ==
    current_operator_id[s] = operator /\ current_wallet_name[s] # NoWallet

OpenWallet == Call("open_wallet", {"filename", "password"})

WalletOwner(w) == IF Len(w) = 3 THEN w[2] ELSE ""

\* C33: a session never serves a request of operator X from a wallet that
\* was provisioned or opened for another operator; a request whose operator
\* has no mapping is not served from the wallet another operator left open
C33_NoForeignWallet ==
    OperationsServed => WalletOwner(sessWallet) \in {"", sessOperator}

\* ======================================================================
\* Properties of the submit handlers (SpecHubs)
\* ======================================================================
\* the SubmitTx responses either hub sent; blob is their tx_hash
SubmitResponses ==
    {r \in hubSent : r.type = SUBMIT_TX_RESPONSE}
    \cup {[type |-> r.kind, request_id |-> r.request_id, success |-> r.success,
           error |-> r.error, blob |-> r.blob] : r \in {x \in sessSent : x.kind = "TransactionResultMessage"}}

\* ----------------------------------------------------------------------
\* C34: in both hubs a SubmitTx response has success=true iff it carries a
\* non-empty tx_hash, and a response with success=false carries a non-empty
\* error; a submit_transfer that returns no error and no hash is answered
\* with success=false
C34_SuccessIffHash ==
    \A r \in SubmitResponses :
        /\ r.success <=> r.blob # ""
        /\ ~r.success => r.error # ""

\* both hubs answered a submit_transfer result with an empty tx_hash_list
C34_Witness ==
    /\ \E r \in hubSent : r.type = SUBMIT_TX_RESPONSE /\ ~r.success /\ r.error = "Unknown error"
    /\ \E r \in sessSent : /\ r.kind = "TransactionResultMessage"
                            /\ ~r.success /\ r.error = "Unknown error"
    /\ hubFailed = <<>> /\ sessFailed = <<>>

\* ======================================================================
\* Properties of the artifacts of send_transaction (SpecWorkflow)
\* ======================================================================
\* C35: each step of send_transaction consumes the artifact of the step
\* before it - the signed blob is the one sign_transfer made of the unsigned
\* blob of the CreateTx response, and SubmitTx carries it - and a SubmitTx
\* request is never sent with an empty signed blob
C35_ArtifactsChained ==
    /\ wf.signed # "" => wf.signed = SignedOf(wf.unsigned)
    /\ req[WfThread].type = SUBMIT_TX => req[WfThread].blob = wf.signed
    /\ \A m \in toHub : m.type = SUBMIT_TX => m.blob # ""

\* ======================================================================
\* Termination of _send_request and send_transaction (FairWorkflow)
\* ======================================================================
\* thread t is in its n-th call of _send_request
InCallNo(t, n) == InCall(t) /\ RequestId(t) = Id(t, n)

\* ----------------------------------------------------------------------
\* C36: every call of _send_request is left - with the response, or with
\* None after at most 30 path polls and the timeout - and so every
\* send_transaction call ends, also when the hub never answers
C36_CallsReturn ==
    /\ [](\A t \in Threads : polls[t] < PathPolls)
    /\ \A n \in 1..Cardinality(HubSteps) :
          InCallNo(WfThread, n) ~> ~InCallNo(WfThread, n)
    /\ (op[WfThread] # "idle") ~> (op[WfThread] \in {"done", "raised"})

\* send_transaction returned a timeout from a hub that handled no message
C36_Witness ==
    /\ WfReturned
    /\ WfResult.error = "Request timed out"
    /\ messages_sent > 0
    /\ hub_messages_received = 0

\* ======================================================================
\* Properties of concurrent calls of ReticulumXMRClient (SpecCallers)
\* ======================================================================
RxInFlight(t) == rxcPc[t] \in {"sent", "wait", "sent2", "wait2"}

\* ----------------------------------------------------------------------
\* C37: two requests in flight at the same time on one ReticulumXMRClient
\* carry distinct request_ids, so a caller is never handed the response to
\* the other caller's request
C37_DistinctRequestIds ==
    /\ \A a, b \in Threads :
          (a # b /\ RxInFlight(a) /\ RxInFlight(b)) =>
              rxcReq[a].request_id # rxcReq[b].request_id
    /\ \A t \in Threads :
          (rxcGot[t].kind = "UnsignedTransactionMessage" /\ rxcGot[t].success) =>
              rxcGot[t].amount = rxcReq[t].amount

\* ----------------------------------------------------------------------
\* C38: in create_and_sign_transaction the submit wait is completed only by
\* the TransactionResultMessage answering the SignedTransactionMessage; an
\* UnsignedTransactionMessage under the same request_id never completes it
\* or decides the call's result
C38_SubmitCompletedByResult ==
    \A t \in Threads :
        (rxcPc[t] = "done2" /\ rxcGot[t] # NoVkMsg) =>
            /\ rxcGot[t].kind = "TransactionResultMessage"
            /\ RxOutcome("submit", rxcGot[t]).error # "Unexpected response"

\* ======================================================================
\* Properties of an Error answer of MoneroHub (SpecCorrelator)
\* ======================================================================
\* the caller is about to leave _send_request with the hub's Error message
\* for its own request
HubErrorRead(t) ==
    /\ sr[t] = "finally"
    /\ ~raising[t]
    /\ ret[t] # NoMsg
    /\ ret[t].type = ERROR
    /\ ret[t].request_id = RequestId(t)

\* ----------------------------------------------------------------------
\* C39: when the hub answers a request with an Error message carrying the
\* request's request_id, the operation that issued the request returns
\* success=false whose error is the hub's error string
C39_HubErrorReturned ==
    [][\A t \in Threads :
          (HubErrorRead(t) /\ op[t] = BALANCE_REQUEST /\ sr'[t] = "none") =>
              /\ ~result'[t].success
              /\ result'[t].error = ret[t].error]_vars

====
